---- MODULE Spec2Model ----
(***************************************************************************)
(* Relay fabric of voice-chat-server: bridge sessions (handshake, read     *)
(* loop, heartbeat supervisor, registry), the relay orchestrator RelayChat *)
(* and the SSE adapter handleChat with its request validation; the frame   *)
(* writer SendMessage; the notification hub and the push endpoints; the    *)
(* STT proxy.                                                              *)
(*                                                                         *)
(* The source holds two relays.  The read loop of auth.go sends every      *)
(* chat_response and chat_error into one channel pair per session, and the *)
(* RelayChat of unnamed/part_009 with the handleChat of unnamed/part_004   *)
(* reads that pair.  The RelayChat of relay.go with the handleChat of      *)
(* api.go reads the channels of a per-request registry (RegisterRequest),  *)
(* whose code and whose read loop are not part of the source; that         *)
(* registry and its dispatch follow the specification.                     *)
(*                                                                         *)
(* Strings that the code treats as opaque payload are held as numbers:     *)
(* a delta or a file is Token(r, k), the k-th frame the bridge sent for    *)
(* request r, 0 being the empty string / zero value.  Times are in seconds *)
(* and are held as differences to the clock: sincePing is now - LastPing   *)
(* and waited is now - (time of accept), both as of the latest tick of the *)
(* heartbeat ticker and both capped where the code's comparisons no        *)
(* longer tell them apart.                                                 *)
(***************************************************************************)
EXTENDS Naturals, Integers, Sequences, FiniteSets, TLC

\* ---------------------------------------------------------------- bounds
Conns == {1, 2}          \* TCP connections a bridge may open
Reqs == {1, 2}           \* client POST /api/chat requests
MaxFrames == 2           \* frames the bridges send for the requests relayed to them
MaxDeltas == 5           \* chat_response frames a bridge sends for a request whose
                         \* deltas are followed from frame to client
SessionCap == 2          \* capacity of a session's ResponseCh and ErrorCh (auth.go: 100)
MaxShared == 3           \* frames a bridge sends for the requests that share its
                         \* session's channels
RespCap == 2             \* capacity of a request's delta channel (spec: >= 16)
ReqFileCap == 1          \* capacity of a request's file channel (spec: >= 8)
OutFileCap == 1          \* capacity of handleChat's fileCh (api.go: 100)
MaxSpurious == 1         \* zero-value receives on the closed fileCh in phase 1
MaxMessages == 2         \* messages in a request given to ValidateChatRequest
Clients == {1, 2}        \* WebSocket clients of the notification hub
Readers == {1, 2}        \* calls of SendTo and Broadcast that hold h.mu.RLock at a time
SendCap == 1             \* capacity of a client's send channel (notifications.go: 64)
MaxNotes == 2            \* calls of HandleSendNotification
MaxPushes == 1           \* calls of HandleSendPush
MaxAudio == 2            \* frames the STT client sends
MaxResults == 2          \* frames the recognizer sends
MaxLength == 4           \* largest length a frame header declares (uint32)
FrameBound == 2          \* spec: fixed bound on a frame's length (e.g. 4 MiB)
MaxBody == 2             \* bytes in a JSON body given to SendMessage
MaxDevices == 2          \* devices DeviceStore.Register creates

\* ------------------------------------------------------ program constants
TickerPeriod == 30       \* auth.go:260
HeartbeatTimeout == 60   \* auth.go:277
ErrCap == 1              \* spec: error channel, capacity 1
HandshakeDeadline == 10  \* spec: valid register frame within 10 s
HeaderLen == 4           \* protocol.go:85, length is a uint32
ByteRange == 256         \* protocol.go:73, a byte of the big-endian length
RelayTimeoutPeriod == 2  \* relay.go:55, minutes
BridgeToken == "bridge-token"

NoConn == 0
NoId == 0

VARIABLES
    nano,         \* latest value of time.Now().UnixNano() read for an id
    conn,         \* [Conns -> connection / BridgeConnection record]
    connections,  \* BridgeManager.connections: the connections in the map, keyed by conn[c].ID
    requests,     \* per session: the request channel sets registered, keyed by requestID
    reqCh,        \* [Reqs -> RequestChannels of the request]
    hpc,          \* position of handleChat
    http,         \* HTTP status of the response (0: none yet)
    gone,         \* the client's context is done
    inst,         \* chatReq.InstanceID
    requestID,    \* requestID of the request
    rpc,          \* position of RelayChat
    rbridge,      \* session RelayChat registered its channels on
    rin,          \* response RelayChat holds while it sends the delta on
    rerr,         \* error RelayChat raised
    sentReq,      \* chat_request frame written to the bridge
    outFile,      \* handleChat's fileCh buffer
    outClosed,    \* fileCh closed by RelayChat's deferred close
    dpc,          \* position of drainFileEvents
    sse,          \* events written to the client
    hist,         \* frames the bridge sent for the request, with their fate
    crashed,      \* the process died of an unrecovered panic
    wire,         \* per session: the writes on the socket since the last frame boundary
    chatReq,      \* body of the POST /api/chat request as decoded
    body,         \* text of the HTTP error response
    vreq,         \* ValidateChatRequest: the request validated
    verr,         \* ValidateChatRequest: the error returned ("": nil)
    hub,          \* NotificationHub.clients
    ncl,          \* [Clients -> NotificationConn and its connection]
    notes,        \* the calls of SendTo and Broadcast so far; what a call
                  \* found and did is kept until the next call
    tokens,       \* FcmManager.tokens: the instanceIds a token is registered for
    pushed,       \* the messages sent to the push service so far
    fcmCalls,     \* the calls of HandleSendPush so far, each with its position
    stt,          \* the STT proxy session: handler, pumps, sockets, frames
    frame,        \* ReadMessage: the stream it read from and what it returned
    timer,        \* per request: RelayChat's timeout timer and the quiet time of its channels
    vosk,         \* the recognizer-to-client pump: frames read, frames written
    pipe,         \* a stream with its SendMessage writers and its ReadMessage reader
    dev,          \* DeviceStore, the tokens it issued and the last request to a protected endpoint
    khub          \* the instanceId-keyed notification hub and its WebSocket handlers

validateVars == <<vreq, verr>>
hubVars == <<hub, ncl, notes>>
fcmVars == <<tokens, pushed, fcmCalls>>
otherVars == <<validateVars, hubVars, fcmVars, stt, frame, timer, vosk, pipe, dev, khub>>

vars == <<nano, conn, connections, requests, reqCh, hpc, http, gone,
          inst, requestID, rpc, rbridge, rin, rerr, sentReq, outFile,
          outClosed, dpc, sse, hist, crashed, wire, chatReq, body, otherVars>>

sessVars == <<conn, connections>>
regVars == <<requests, reqCh>>
relayVars == <<rpc, rbridge, rin, rerr, sentReq, dpc>>
handlerVars == <<hpc, http, gone, inst, requestID, sse>>
outVars == <<outFile, outClosed>>
auxVars == <<wire, chatReq, body, otherVars>>
coreVars == <<nano, sessVars, regVars, handlerVars, relayVars, outVars, hist, crashed,
              wire, chatReq, body>>

\* ---------------------------------------------------------------- helpers
EmptyChannels == [ResponseCh |-> <<>>, ErrorCh |-> <<>>, FileCh |-> <<>>, closed |-> FALSE]

NewConn == [state |-> "idle", ID |-> NoId, Status |-> "", sincePing |-> 0,
            waited |-> 0, peerClosed |-> FALSE, sockClosed |-> FALSE,
            chClosed |-> FALSE, ResponseCh |-> <<>>, ErrorCh |-> <<>>,
            first |-> [kind |-> "none", type |-> "", token |-> ""]]

\* ChatResponseMessage and ChatErrorMessage as json.Unmarshal fills them
ChatResponseMessage(rid, delta, done) == [RequestID |-> rid, Delta |-> delta, Done |-> done]

ChatErrorMessage(rid, error) == [RequestID |-> rid, Error |-> error]

\* What a receive on a closed and empty channel returns
ZeroResponse == ChatResponseMessage(NoId, 0, FALSE)

ZeroError == ChatErrorMessage(NoId, 0)

\* ChatRequest before json.Decode has filled it
NoRequest == [json |-> FALSE, InstanceID |-> NoId, Messages |-> <<>>]

\* ChatMessage
Message(role, content) == [Role |-> role, Content |-> content]

\* A body that decodes and passes ValidateChatRequest
ValidBody(id) == [json |-> TRUE, InstanceID |-> id, Messages |-> <<Message("user", "hi")>>]

\* ValidateChatRequest, the loop over req.Messages from index i (Go counts
\* the messages from 0)
RECURSIVE ValidateMessages(_, _)
ValidateMessages(msgs, i) ==
    IF i > Len(msgs) THEN ""
    ELSE LET msg == msgs[i]
             at == "message[" \o ToString(i - 1) \o "]: "
         IN IF msg.Role = "" THEN at \o "role is required"
            ELSE IF msg.Content = "" THEN at \o "content is required"
            ELSE IF msg.Role # "user" /\ msg.Role # "assistant" /\ msg.Role # "system"
                 THEN at \o "invalid role '" \o msg.Role \o "'"
            ELSE ValidateMessages(msgs, i + 1)

\* A validation that looks at the request but at none of its messages
ValidateChatRequestNoLoop(req) ==
    IF req.InstanceID = NoId THEN "instanceId is required"
    ELSE IF Len(req.Messages) = 0 THEN "messages are required"
    ELSE ""

\* ValidateChatRequest: the text of the error, "" for nil; NoId is the
\* empty instanceId
ValidateChatRequest(req) ==
    IF req.InstanceID = NoId THEN "instanceId is required"
    ELSE IF Len(req.Messages) = 0 THEN "messages are required"
    ELSE ValidateMessages(req.Messages, 1)

Range(s) == {s[i] : i \in 1..Len(s)}

Event(t, v) == [t |-> t, v |-> v]
DoneEvent == Event("done", 0)

\* time.Now().UnixNano(), a reading of the wall clock: later than every
\* reading before, or the value of an earlier reading when the clock has
\* not advanced or was set back; nano is the latest value read so far
ClockReadings == 1..(nano + 1)

\* The latest value read once id has been read
Latest(id) == IF id > nano THEN id ELSE nano

\* generateID: "bridge_" + UnixNano, the ids a call may return
generateID == ClockReadings

\* generateRequestID: "req_" + UnixNano, the ids a call may return
generateRequestID == ClockReadings

\* ValidateBridgeToken
ValidateBridgeToken(token) == token # "" /\ token = BridgeToken

\* BridgeManager.GetBridge: the session stored under id, NoConn for nil
GetBridge(id) ==
    IF \E c \in connections : conn[c].ID = id
    THEN CHOOSE c \in connections : conn[c].ID = id
    ELSE NoConn

\* verr before ValidateChatRequest has returned
NotRun == "(not run)"

\* ValidateChatRequest has not been called
InitValidate == vreq = NoRequest /\ verr = NotRun

\* Identity of a client that is not in the hub
NotConnected == "(not connected)"

\* NotificationConn before the WebSocket upgrade
NoClient == [state |-> "none", instanceID |-> "", send |-> <<>>, sendClosed |-> FALSE,
             wdone |-> FALSE]

\* instanceIds clients identify with and notifications are sent to
HubIds == {"X", "Y"}

\* The keys of fm.tokens: instanceIds, and "default" for the empty one
TokenKeys == {"default"} \cup HubIds

\* fcm_tokens.json as a run of the server may find it: the file does not
\* exist, or it holds the map an earlier run saved in RegisterToken
TokenFiles == SUBSET TokenKeys

\* No fcm_tokens.json in the data directory
NoTokenFile == {}

\* loadTokens: the map read from fcm_tokens.json, empty without the file
loadTokens(file) == file

\* NewNotificationHub: no client; NewFcmManager: the tokens loadTokens finds
InitHub(file) ==
    /\ hub = {}
    /\ ncl = [k \in Clients |-> NoClient]
    /\ notes = <<>>
    /\ tokens = loadTokens(file)
    /\ pushed = <<>>
    /\ fcmCalls = <<>>

\* STT proxy: no request for a session yet. up: frames the recognizer has
\* received; down: frames written to the client; results: frames the
\* recognizer has sent
InitSTT ==
    stt = [hpc |-> "idle", toVosk |-> "none", toClient |-> "none",
           clientPeer |-> FALSE, clientClosed |-> FALSE,
           voskPeer |-> FALSE, voskClosed |-> FALSE,
           up |-> <<>>, down |-> <<>>, results |-> 0]

\* ReadMessage has not been called: stream is what the connection will
\* deliver before it ends (header bytes, declared length, body bytes)
NoFrame == [called |-> FALSE, hdr |-> 0, length |-> 0, avail |-> 0,
            err |-> FALSE, data |-> 0 - 1, allocated |-> 0, read |-> 0,
            loop |-> "reading"]

InitFrame == frame = NoFrame

\* RelayChat's timer has not run, nothing has arrived for the request
InitTimer == timer = [r \in Reqs |-> [age |-> 0, quiet |-> 0, seen |-> 0]]

\* The recognizer-to-client pump runs and has read nothing
InitVosk == vosk = [run |-> TRUE, sent |-> <<>>, out |-> <<>>]

Writers == {1, 2}        \* goroutines that call SendMessage on the stream

\* Nothing written on the stream, nothing read from it
InitPipe ==
    pipe = [bytes |-> <<>>, wpc |-> [w \in Writers |-> "idle"],
            data |-> [w \in Writers |-> <<>>], sent |-> <<>>, got |-> <<>>,
            err |-> FALSE]

\* No request to a protected endpoint yet
\* Requests to protected endpoints served at the same time
DeviceRequests == {1, 2}

NoCall == [auth |-> <<>>, live |-> {}, status |-> 0, invoked |-> FALSE]

\* The k-th token generateToken returns and the k-th id generateDeviceID
\* returns, as strings (sequences of characters): crypto/rand values, taken
\* as different from each other
TokenOf(k) == <<"t", ToString(k)>>
DeviceIdOf(k) == <<"d", ToString(k)>>

\* devices.json as a run of the server may find it: what save wrote in
\* earlier runs after Register had issued the first n tokens and Remove had
\* deleted the devices in gone; no file is the case n = 0
DeviceFiles ==
    {f \in [n : 0..MaxDevices, gone : SUBSET (1..MaxDevices)] : f.gone \subseteq 1..f.n}

\* No devices.json in the data directory
NoDeviceFile == [n |-> 0, gone |-> {}]

\* DeviceStore.load: the devices of devices.json, stored under their tokens
load(file) ==
    {[token |-> TokenOf(k), id |-> DeviceIdOf(k)] : k \in (1..file.n) \ file.gone}

\* NewDeviceStore: the map load fills. devices: the map from token to
\* device id; issued, removed: the tokens Register returned and the tokens
\* of the devices Remove deleted, in this run or an earlier one; touched:
\* the tokens Touch has stamped; pending: the requests between Validate and
\* Touch; last: the request answered last
InitDevice(file) ==
    dev = [devices |-> load(file),
           issued |-> {TokenOf(k) : k \in 1..file.n},
           removed |-> {TokenOf(k) : k \in file.gone},
           touched |-> {},
           pending |-> [q \in DeviceRequests |-> NoCall], last |-> NoCall]

\* WebSocket connections to the instanceId-keyed notification endpoint
Sockets == {1, 2, 3}

\* No connection stored under an instanceId
NoSock == 0

\* The connection of a handler that has not started
NoSocket == [state |-> "none", id |-> "", closed |-> FALSE]

\* NewNotificationHub of the keyed hub: an empty map; no handler running;
\* last is the connection that registered last for each instanceId
InitKeyed ==
    khub = [clients |-> [id \in HubIds |-> NoSock],
            ws |-> [s \in Sockets |-> NoSocket],
            last |-> [id \in HubIds |-> NoSock]]

\* The components beside the relay, started on the files of the data directory
InitFiles(tokenFile, deviceFile) ==
    /\ InitValidate
    /\ InitHub(tokenFile)
    /\ InitSTT
    /\ InitFrame
    /\ InitTimer
    /\ InitVosk
    /\ InitPipe
    /\ InitDevice(deviceFile)
    /\ InitKeyed

\* The components beside the relay, started in an empty data directory
InitOther == InitFiles(NoTokenFile, NoDeviceFile)

\* Nothing written to a bridge, no POST /api/chat decoded
InitWire ==
    /\ wire = [c \in Conns |-> <<>>]
    /\ chatReq = [r \in Reqs |-> NoRequest]
    /\ body = [r \in Reqs |-> ""]

InitAux == InitWire /\ InitOther

\* The relay after main has built the BridgeManager: no session, no request
InitRelay ==
    /\ nano = 0
    /\ conn = [c \in Conns |-> NewConn]
    /\ connections = {}
    /\ requests = [c \in Conns |-> {}]
    /\ reqCh = [r \in Reqs |-> EmptyChannels]
    /\ hpc = [r \in Reqs |-> "idle"]
    /\ http = [r \in Reqs |-> 0]
    /\ gone = [r \in Reqs |-> FALSE]
    /\ inst = [r \in Reqs |-> NoId]
    /\ requestID = [r \in Reqs |-> NoId]
    /\ rpc = [r \in Reqs |-> "none"]
    /\ rbridge = [r \in Reqs |-> NoConn]
    /\ rin = [r \in Reqs |-> ZeroResponse]
    /\ rerr = [r \in Reqs |-> ""]
    /\ sentReq = [r \in Reqs |-> FALSE]
    /\ outFile = [r \in Reqs |-> <<>>]
    /\ outClosed = [r \in Reqs |-> FALSE]
    /\ dpc = [r \in Reqs |-> "none"]
    /\ sse = [r \in Reqs |-> <<>>]
    /\ hist = [r \in Reqs |-> <<>>]
    /\ crashed = FALSE

\* The server started in a data directory with the token file of earlier
\* runs, or none
InitTokens ==
    \E tokenFile \in TokenFiles :
        InitRelay /\ InitWire /\ InitFiles(tokenFile, NoDeviceFile)

\* The server started in a data directory with the device file of earlier
\* runs, or none
InitDevices ==
    \E deviceFile \in DeviceFiles :
        InitRelay /\ InitWire /\ InitFiles(NoTokenFile, deviceFile)

\* The server started in an empty data directory
Init == InitRelay /\ InitAux

\* ------------------------------------------------------- bridge session
\* StartTCPServer: listener.Accept, go handleBridgeConnection(conn)
Accept(c) ==
    /\ ~crashed
    /\ conn[c].state = "idle"
    /\ conn' = [conn EXCEPT ![c].state = "handshake", ![c].waited = 0]
    /\ UNCHANGED <<nano, connections, regVars, handlerVars, relayVars,
                   outVars, hist, crashed, auxVars>>

\* First frames a connection may send: a read error (EOF), a body that is no
\* JSON, a frame of another type, a register frame with some token.
FirstFrames ==
    {[kind |-> "eof", type |-> "", token |-> ""],
     [kind |-> "badjson", type |-> "", token |-> ""],
     [kind |-> "frame", type |-> "heartbeat", token |-> BridgeToken],
     [kind |-> "frame", type |-> "register", token |-> ""],
     [kind |-> "frame", type |-> "register", token |-> "wrong"],
     [kind |-> "frame", type |-> "register", token |-> BridgeToken]}

HandshakeOK(first) ==
    /\ first.kind = "frame"
    /\ first.type = "register"
    /\ ValidateBridgeToken(first.token)

\* handleBridgeConnection: read the first frame, register under the id that
\* generateID returned or close
handleBridgeConnectionAt(c, first, id) ==
    /\ ~crashed
    /\ conn[c].state = "handshake"
    /\ IF HandshakeOK(first)
       THEN /\ conn' = [conn EXCEPT ![c].state = "registered",
                                    ![c].first = first,
                                    ![c].waited = 0,
                                    ![c].ID = id,
                                    ![c].Status = "online",
                                    ![c].sincePing = 0]
            /\ nano' = Latest(id)
            /\ connections' = {d \in connections : conn[d].ID # id} \cup {c}
       ELSE /\ conn' = [conn EXCEPT ![c].state = "closed", ![c].waited = 0,
                                    ![c].first = first,
                                    ![c].sockClosed = TRUE]
            /\ UNCHANGED <<nano, connections>>
    /\ UNCHANGED <<regVars, handlerVars, relayVars, outVars, hist, crashed, auxVars>>

\* handleBridgeConnection with any id generateID may return
handleBridgeConnection(c, first) ==
    \E id \in generateID : handleBridgeConnectionAt(c, first, id)

\* The bridge's end of the socket closes (bridge exit, network loss)
BridgeClose(c) ==
    /\ ~crashed
    /\ conn[c].state = "registered"
    /\ ~conn[c].peerClosed
    /\ conn' = [conn EXCEPT ![c].peerClosed = TRUE]
    /\ UNCHANGED <<nano, connections, regVars, handlerVars, relayVars,
                   outVars, hist, crashed, auxVars>>

\* The read loop can read a frame: the socket is open at both ends
Readable(c) ==
    /\ ~crashed
    /\ conn[c].state = "registered"
    /\ ~conn[c].peerClosed
    /\ ~conn[c].sockClosed

\* Closing a session closes every request channel registered on it (I4)
CloseAllRequests(b) ==
    [r \in Reqs |-> IF r \in requests[b] THEN [reqCh[r] EXCEPT !.closed = TRUE]
                    ELSE reqCh[r]]

\* The request channels after the session stored under id, if any, has
\* closed those registered on it (I4), as part of its removal
closeRequests(id) ==
    IF GetBridge(id) # NoConn THEN CloseAllRequests(GetBridge(id)) ELSE reqCh

\* A removeBridge that does not look whether the id is in the map
removeBridgeUnchecked(cn, id) ==
    LET bridge == CHOOSE c \in Conns : conn[c].ID = id IN
    /\ conn' = [cn EXCEPT ![bridge].chClosed = TRUE]
    /\ connections' = connections \ {bridge}

\* removeBridge: under the lock, if the id is in the map close the
\* session's ResponseCh and ErrorCh and delete the entry; cn is the state
\* of the connections the caller has reached
removeBridge(cn, id) ==
    LET bridge == GetBridge(id) IN
    IF bridge # NoConn
    THEN /\ conn' = [cn EXCEPT ![bridge].chClosed = TRUE]
         /\ connections' = connections \ {bridge}
    ELSE /\ conn' = cn
         /\ connections' = connections

\* bridgeMessageHandler, ReadMessage fails: return, and the deferred
\* function calls removeBridge
bridgeReadError(c) ==
    /\ ~crashed
    /\ conn[c].state = "registered"
    /\ conn[c].peerClosed \/ conn[c].sockClosed
    /\ removeBridge([conn EXCEPT ![c].state = "closing"], conn[c].ID)
    /\ UNCHANGED <<nano, requests, handlerVars, relayVars, outVars,
                   hist, crashed, auxVars>>

\* The end of a session on a read error: it unregisters itself and, with the
\* removal, the request channels registered on it are closed (I4)
bridgeSessionEnd(c) ==
    /\ bridgeReadError(c)
    /\ reqCh' = closeRequests(conn[c].ID)

\* bridgeMessageHandler, the deferred function after removeBridge has
\* released the lock: bridge.Conn.Close()
bridgeConnClose(c) ==
    /\ ~crashed
    /\ conn[c].state = "closing"
    /\ conn' = [conn EXCEPT ![c].state = "closed", ![c].sockClosed = TRUE]
    /\ UNCHANGED <<nano, connections, regVars, handlerVars, relayVars, outVars,
                   hist, crashed, auxVars>>

\* bridgeMessageHandler, case MsgTypeHeartbeat
HandleHeartbeat(c) ==
    /\ Readable(c)
    /\ conn' = [conn EXCEPT ![c].sincePing = 0]
    /\ UNCHANGED <<nano, connections, regVars, handlerVars, relayVars,
                   outVars, hist, crashed, auxVars>>

\* bridgeMessageHandler, default case: unknown type, log and continue
HandleUnknownTypeRefresh(c) ==
    /\ Readable(c)
    /\ conn' = [conn EXCEPT ![c].sincePing = 0]
    /\ UNCHANGED <<nano, connections, regVars, handlerVars, relayVars,
                   outVars, hist, crashed, auxVars>>

HandleUnknownType(c) ==
    /\ Readable(c)
    /\ UNCHANGED vars

\* bridgeMessageHandler, json.Unmarshal of the body fails: log and continue
HandleBadJSON(c) ==
    /\ Readable(c)
    /\ UNCHANGED vars

\* select { case ch <- msg: default: }: the buffer after a non-blocking send
NonBlockingSend(buf, cap, msg) == IF Len(buf) < cap THEN Append(buf, msg) ELSE buf

\* bridgeMessageHandler, case MsgTypeChatResponse:
\* select { case bridge.ResponseCh <- respMsg: default: } on the one
\* ResponseCh of the session, whatever requestId the frame names. A send on a
\* closed channel panics, default case or not, and nothing recovers the
\* panic of the read loop. (The frames a request was sent are kept in hist
\* by the step that reads the frame.)
HandleChatResponse(c, respMsg) ==
    /\ Readable(c)
    /\ IF conn[c].chClosed
       THEN /\ crashed' = TRUE
            /\ UNCHANGED conn
       ELSE /\ conn' = [conn EXCEPT ![c].ResponseCh = NonBlockingSend(@, SessionCap, respMsg)]
            /\ UNCHANGED crashed
    /\ UNCHANGED <<nano, connections, regVars, handlerVars, relayVars, outVars, auxVars>>

\* bridgeMessageHandler, case MsgTypeChatError:
\* select { case bridge.ErrorCh <- errMsg: default: } on the one ErrorCh of
\* the session
HandleChatError(c, errMsg) ==
    /\ Readable(c)
    /\ IF conn[c].chClosed
       THEN /\ crashed' = TRUE
            /\ UNCHANGED conn
       ELSE /\ conn' = [conn EXCEPT ![c].ErrorCh = NonBlockingSend(@, SessionCap, errMsg)]
            /\ UNCHANGED crashed
    /\ UNCHANGED <<nano, connections, regVars, handlerVars, relayVars, outVars, auxVars>>

\* The request a frame of session c is addressed to: the one relayed to c with that id
Addressee(c, rid) == {r \in Reqs : rid # NoId /\ requestID[r] = rid /\ rbridge[r] = c}

\* requestIds the bridge of session c has been sent a chat_request for
FrameRids(c) == {requestID[r] : r \in {q \in Reqs : rbridge[q] = c /\ sentReq[q]}} \ {NoId}

\* chat_response, chat_error and file_response frames sent for relayed requests
nframes == Len(hist[1]) + Len(hist[2])

\* The bridges have frames left to send
MoreFrames == nframes < MaxFrames

\* Payload of the next frame for the request with this id
Token(r, k) == 10 * r + k

NextToken(c, rid) ==
    LET r == CHOOSE q \in Addressee(c, rid) : TRUE IN Token(r, Len(hist[r]) + 1)

\* A frame as kept among the frames a request was sent: its payload, whether
\* it found room in the channel it was sent into, and for a file whether it
\* came in the drain window
Sent(type, v, done, acc, late) ==
    [type |-> type, v |-> v, done |-> done, acc |-> acc, late |-> late]

Record(c, rid, entry) ==
    [r \in Reqs |-> IF r \in Addressee(c, rid) THEN Append(hist[r], entry) ELSE hist[r]]

\* A requestId that no request has: ids are clock readings
UnknownRequest == 0 - 1

\* The session's channel takes a frame now: it is open and has room
Room(c, ch) == ~conn[c].chClosed /\ Len(conn[c][ch]) < SessionCap

\* The bridge has frames left to send for requests whose clients do not read
MoreShared == nframes < MaxShared

\* A frame kept for the count of the frames a request was sent
Counted == Sent("frame", 0, FALSE, FALSE, FALSE)

\* The text the bridge sends as delta or error in the frames of the request
\* with this id
TextFor(c, rid) == Token(CHOOSE q \in Addressee(c, rid) : TRUE, 1)

\* The read loop reads a chat_response frame the bridge sends for a request
\* relayed to it, with or without a delta
ReadChatResponse(c, rid, empty, done) ==
    /\ HandleChatResponse(c, ChatResponseMessage(rid, IF empty THEN 0 ELSE TextFor(c, rid), done))
    /\ hist' = Record(c, rid, Counted)

\* The read loop reads a chat_error frame the bridge sends for a request
\* relayed to it
ReadChatError(c, rid) ==
    /\ HandleChatError(c, ChatErrorMessage(rid, TextFor(c, rid)))
    /\ hist' = Record(c, rid, Counted)

\* The read loop reads a chat_response frame, a chat_error frame that names
\* the requestId of no request
ReadStrayResponse(c) ==
    /\ HandleChatResponse(c, ChatResponseMessage(UnknownRequest, 1, FALSE))
    /\ UNCHANGED hist

ReadStrayError(c) ==
    /\ HandleChatError(c, ChatErrorMessage(UnknownRequest, 1))
    /\ UNCHANGED hist

\* The read loop on a frame that names no request: cases MsgTypeHeartbeat
\* and default, and the parse error. A file_response frame has no case of
\* its own in auth.go and is a frame of unknown type
ReadControlFrame(c) ==
    \/ HandleHeartbeat(c)
    \/ HandleUnknownType(c)
    \/ HandleBadJSON(c)

\* The frames a bridge sends for the requests relayed to it
ReadSharedFrame(c) ==
    \E rid \in FrameRids(c) :
        \/ \E empty \in BOOLEAN, done \in BOOLEAN : ReadChatResponse(c, rid, empty, done)
        \/ ReadChatError(c, rid)

\* bridgeMessageHandler, ReadMessage fails: return and the deferred
\* removeBridge; the channels of the requests are none of its business
bridgeReturn(c) ==
    /\ bridgeReadError(c)
    /\ UNCHANGED reqCh

\* ------------------------------------- dispatch by the request registry
\* The read loop that relay.go and api.go are written for hands the frames
\* of a request to the channels RegisterRequest returned for its requestId.

\* Request registry lookup on dispatch: the channel set registered under rid
RegistryLookup(c, rid) == {r \in requests[c] : requestID[r] = rid /\ rid # NoId}

Accepted(c, rid, ch, cap) ==
    \E r \in RegistryLookup(c, rid) : ~reqCh[r].closed /\ Len(reqCh[r][ch]) < cap

\* A done=true frame of the request is in its channel or was taken from it
DoneDispatched(r) ==
    \E i \in 1..Len(hist[r]) : hist[r][i].type = "resp" /\ hist[r][i].done /\ hist[r][i].acc

\* Dispatch of a frame into channel ch of the request registered under rid;
\* a frame for an unknown requestId or a full buffer is dropped
RegistryDispatch(c, rid, ch, cap, msg) ==
    [r \in Reqs |-> IF r \in RegistryLookup(c, rid) /\ ~reqCh[r].closed
                    THEN [reqCh[r] EXCEPT ![ch] = NonBlockingSend(@, cap, msg)]
                    ELSE reqCh[r]]

\* A chat_response frame of a relayed request, dispatched by its requestId
DispatchChatResponse(c, rid, empty, done) ==
    LET delta == IF empty THEN 0 ELSE NextToken(c, rid) IN
    /\ Readable(c)
    /\ reqCh' = RegistryDispatch(c, rid, "ResponseCh", RespCap,
                                ChatResponseMessage(rid, delta, done))
    /\ hist' = Record(c, rid, Sent("resp", delta, done, Accepted(c, rid, "ResponseCh", RespCap), FALSE))
    /\ UNCHANGED <<sessVars, nano, requests, handlerVars, relayVars, outVars, crashed, auxVars>>

\* A chat_error frame of a relayed request, dispatched by its requestId
DispatchChatError(c, rid) ==
    /\ Readable(c)
    /\ reqCh' = RegistryDispatch(c, rid, "ErrorCh", ErrCap, NextToken(c, rid))
    /\ hist' = Record(c, rid, Sent("error", NextToken(c, rid), FALSE, Accepted(c, rid, "ErrorCh", ErrCap), FALSE))
    /\ UNCHANGED <<sessVars, nano, requests, handlerVars, relayVars, outVars, crashed, auxVars>>

\* The client of request r is connected and its stream has not ended
Streaming(r) == hpc[r] \in {"phase1", "phase2"}

\* A file frame read now for request r follows its done frame, reaches a
\* client that is still connected, no drain timer of the request has fired,
\* and the request's file buffer is not full
InDrainWindow(r) ==
    /\ DoneDispatched(r)
    /\ Streaming(r)
    /\ dpc[r] # "done"
    /\ Len(reqCh[r].FileCh) < ReqFileCap

\* A file_response frame of a relayed request, dispatched by its requestId
DispatchFileResponse(c, rid) ==
    /\ Readable(c)
    /\ reqCh' = RegistryDispatch(c, rid, "FileCh", ReqFileCap, NextToken(c, rid))
    /\ hist' = [r \in Reqs |->
                  IF r \in Addressee(c, rid)
                  THEN Append(hist[r], Sent("file", NextToken(c, rid), FALSE,
                                            Accepted(c, rid, "FileCh", ReqFileCap),
                                            InDrainWindow(r)))
                  ELSE hist[r]]
    /\ UNCHANGED <<sessVars, nano, requests, handlerVars, relayVars, outVars, crashed, auxVars>>

\* The read loop on a frame of a relayed request
ReadRequestFrame(c) ==
    /\ MoreFrames
    /\ \E rid \in FrameRids(c) :
          \/ \E empty \in BOOLEAN, done \in BOOLEAN : DispatchChatResponse(c, rid, empty, done)
          \/ DispatchChatError(c, rid)
          \/ DispatchFileResponse(c, rid)

\* A registered session with its request registry: the read loop with the
\* frames of requests, and the end of the session
BridgeSession(c) ==
    \/ bridgeSessionEnd(c)
    \/ bridgeConnClose(c)
    \/ ReadControlFrame(c)
    \/ ReadRequestFrame(c)

\* Sessions the supervisor finds stale: now.Sub(bridge.LastPing) > timeout
StaleAtTimeout(cn) == {c \in connections : cn[c].sincePing >= HeartbeatTimeout}

Stale(cn) == {c \in connections : cn[c].sincePing > HeartbeatTimeout}

\* A supervisor that marks a stale session offline and closes its socket
\* but leaves it in the registry
checkHeartbeatsKeep(cn) ==
    /\ conn' = [c \in Conns |-> IF c \in Stale(cn)
                                THEN [cn[c] EXCEPT !.Status = "offline", !.sockClosed = TRUE]
                                ELSE cn[c]]
    /\ connections' = connections

\* checkHeartbeats: mark offline, close the socket, delete the entry
checkHeartbeats(cn) ==
    /\ conn' = [c \in Conns |-> IF c \in Stale(cn)
                                THEN [cn[c] EXCEPT !.Status = "offline", !.sockClosed = TRUE]
                                ELSE cn[c]]
    /\ connections' = connections \ Stale(cn)

Min(a, b) == IF a < b THEN a ELSE b

\* The clock reaches the next tick: every difference to it grows by a period
Elapse(cn) ==
    [c \in Conns |->
        [cn[c] EXCEPT
           !.sincePing = IF cn[c].state = "registered" /\ c \in connections
                         THEN Min(@ + TickerPeriod, HeartbeatTimeout + TickerPeriod) ELSE @,
           !.waited = IF cn[c].state = "handshake"
                      THEN Min(@ + TickerPeriod, 2 * TickerPeriod) ELSE @]]

\* heartbeatChecker: the ticker fires every 30 s
heartbeatChecker ==
    /\ ~crashed
    /\ checkHeartbeats(Elapse(conn))
    /\ UNCHANGED <<nano, regVars, handlerVars, relayVars, outVars, hist, crashed, auxVars>>

\* ------------------------------------------------------ request registry
\* BridgeConnection.RegisterRequest: insert a fresh channel triple under the id
RegisterRequest(c, r) ==
    /\ requests' = [requests EXCEPT
                       ![c] = {q \in @ : requestID[q] # requestID[r]} \cup {r}]
    /\ reqCh' = [reqCh EXCEPT ![r] = EmptyChannels]

\* BridgeConnection.UnregisterRequest: remove the entry stored under the id
\* and close its channels
UnregisterRequest(c, r) ==
    LET entry == {q \in requests[c] : requestID[q] = requestID[r]} IN
    /\ requests' = [requests EXCEPT ![c] = @ \ entry]
    /\ reqCh' = [q \in Reqs |-> IF q \in entry THEN [reqCh[q] EXCEPT !.closed = TRUE]
                                ELSE reqCh[q]]

\* ------------------------------------------------------------- RelayChat
\* The channel set RelayChat selects on: the one its RegisterRequest returned
RelayReqCh(r) == reqCh[r]

\* An error dropped when handleChat is not yet receiving, as a select with a
\* default case would do
RaiseNoWait(r, msg) ==
    /\ rerr' = [rerr EXCEPT ![r] = msg]
    /\ rpc' = [rpc EXCEPT ![r] = "exit"]

Raise(r, msg) ==
    /\ rerr' = [rerr EXCEPT ![r] = msg]
    /\ rpc' = [rpc EXCEPT ![r] = "errsend"]

\* RelayChat: GetBridge under the read lock, "bridge not found" when nil
RelayGetBridge(r) ==
    LET bridge == GetBridge(inst[r]) IN
    /\ ~crashed
    /\ rpc[r] = "start"
    /\ IF bridge = NoConn
       THEN /\ Raise(r, "bridge not found")
            /\ UNCHANGED rbridge
       ELSE /\ rbridge' = [rbridge EXCEPT ![r] = bridge]
            /\ rpc' = [rpc EXCEPT ![r] = "register"]
            /\ UNCHANGED rerr
    /\ UNCHANGED <<sessVars, nano, regVars, handlerVars, rin,  sentReq, dpc,
                   outVars, hist, crashed, auxVars>>

\* RelayChat: bridge.RegisterRequest on the session GetBridge returned,
\* which may have left the registry since
RelayRegisterRequest(r) ==
    /\ ~crashed
    /\ rpc[r] = "register"
    /\ RegisterRequest(rbridge[r], r)
    /\ rpc' = [rpc EXCEPT ![r] = "send"]
    /\ UNCHANGED <<sessVars, nano, handlerVars, rbridge, rin, rerr, sentReq, dpc,
                   outVars, hist, crashed, auxVars>>

\* SendMessage on the session's socket: a write to a socket whose peer has
\* closed may still succeed or fail
SendMessageOK(c) == IF conn[c].sockClosed THEN {FALSE}
                    ELSE IF conn[c].peerClosed THEN {TRUE, FALSE} ELSE {TRUE}

\* One conn.Write of SendMessage: the 4-byte length or the JSON body of the
\* chat_request of request r
Chunk(r, part) == [req |-> r, part |-> part]

\* The writes s are a run of whole frames, each length followed by its body
WholeFrames(s) ==
    /\ Len(s) % 2 = 0
    /\ \A i \in 1..Len(s) : i % 2 = 1 => s[i].part = "len" /\ s[i + 1] = Chunk(s[i].req, "body")

\* conn.Write: the socket after the writes in chunks, cut at a frame boundary
Written(w, chunks) == IF WholeFrames(w \o chunks) THEN <<>> ELSE w \o chunks

\* RelayChat, SendChatRequest, SendMessage: binary.Write of the length;
\* "failed to send chat request" when the write fails
RelaySendHeader(r) ==
    LET bridge == GetBridge(inst[r]) IN
    /\ ~crashed
    /\ rpc[r] = "send"
    /\ \E ok \in (IF bridge = NoConn THEN {FALSE} ELSE SendMessageOK(bridge)) :
          IF ok
          THEN /\ wire' = [wire EXCEPT ![bridge] = Written(@, <<Chunk(r, "len")>>)]
               /\ rpc' = [rpc EXCEPT ![r] = "body"]
               /\ UNCHANGED rerr
          ELSE /\ Raise(r, "failed to send chat request")
               /\ UNCHANGED wire
    /\ UNCHANGED <<sessVars, nano, regVars, handlerVars, rbridge, rin, dpc, sentReq,
                   outVars, hist, crashed, chatReq, body, otherVars>>

\* SendMessage: conn.Write of the body on the connection GetBridge
\* returned, then the select loop of RelayChat
RelaySendBody(r) ==
    /\ ~crashed
    /\ rpc[r] = "body"
    /\ \E c \in Conns :
          /\ Chunk(r, "len") \in Range(wire[c])
          /\ \E ok \in SendMessageOK(c) :
                IF ok
                THEN /\ wire' = [wire EXCEPT ![c] = Written(@, <<Chunk(r, "body")>>)]
                     /\ sentReq' = [sentReq EXCEPT ![r] = TRUE]
                     /\ rpc' = [rpc EXCEPT ![r] = "loop"]
                     /\ UNCHANGED rerr
                ELSE /\ Raise(r, "failed to send chat request")
                     /\ UNCHANGED <<wire, sentReq>>
    /\ UNCHANGED <<sessVars, nano, regVars, handlerVars, rbridge, rin, dpc,
                   outVars, hist, crashed, chatReq, body, otherVars>>

\* Every response sent on to handleChat, an empty delta included
ForwardableAny(response) == TRUE

\* relay.go:65: a response with a non-empty delta is sent on to handleChat
Forwardable(response) == response.Delta # 0

\* No response ending the relay
IsDoneNever(response) == FALSE

\* relay.go:73: a response with done=true ends the relay
IsDone(response) == response.Done

\* RelayChat after a response is dealt with: return on done (starting
\* drainFileEvents), else select again
AfterResponse(r, response) ==
    IF IsDone(response)
    THEN /\ rpc' = [rpc EXCEPT ![r] = "exit"]
         /\ dpc' = [dpc EXCEPT ![r] = "run"]
    ELSE /\ rpc' = [rpc EXCEPT ![r] = "loop"]
         /\ UNCHANGED dpc

\* select case response, ok := <-reqCh.ResponseCh, ok
RelayRecvResponse(r) ==
    LET response == Head(RelayReqCh(r).ResponseCh) IN
    /\ ~crashed
    /\ rpc[r] = "loop"
    /\ RelayReqCh(r).ResponseCh # <<>>
    /\ reqCh' = [reqCh EXCEPT ![r].ResponseCh = Tail(@)]
    /\ IF Forwardable(response)
       THEN /\ rin' = [rin EXCEPT ![r] = response]
            /\ rpc' = [rpc EXCEPT ![r] = "fwd"]
            /\ UNCHANGED dpc
       ELSE /\ AfterResponse(r, response)
            /\ UNCHANGED rin
    /\ UNCHANGED <<sessVars, nano, requests, handlerVars, rbridge, rerr, 
                   sentReq, outVars, hist, crashed, auxVars>>

\* select case <-reqCh.ResponseCh, !ok   and   case <-reqCh.ErrorCh, !ok
RelayChannelClosed(r) ==
    /\ ~crashed
    /\ rpc[r] = "loop"
    /\ RelayReqCh(r).closed
    /\ RelayReqCh(r).ResponseCh = <<>> \/ RelayReqCh(r).ErrorCh = <<>>
    /\ Raise(r, "bridge disconnected")
    /\ UNCHANGED <<sessVars, nano, regVars, handlerVars, rbridge, rin, 
                   sentReq, dpc, outVars, hist, crashed, auxVars>>

\* select case chatError, ok := <-reqCh.ErrorCh, ok
RelayRecvError(r) ==
    /\ ~crashed
    /\ rpc[r] = "loop"
    /\ RelayReqCh(r).ErrorCh # <<>>
    /\ reqCh' = [reqCh EXCEPT ![r].ErrorCh = Tail(@)]
    /\ Raise(r, "chat error")
    /\ UNCHANGED <<sessVars, nano, requests, handlerVars, rbridge, rin, 
                   sentReq, dpc, outVars, hist, crashed, auxVars>>

\* select case fileMsg, ok := <-reqCh.FileCh, ok: non-blocking send on fileCh
RelayRecvFile(r) ==
    /\ ~crashed
    /\ rpc[r] = "loop"
    /\ RelayReqCh(r).FileCh # <<>>
    /\ reqCh' = [reqCh EXCEPT ![r].FileCh = Tail(@)]
    /\ outFile' = [outFile EXCEPT ![r] = NonBlockingSend(@, OutFileCap, Head(RelayReqCh(r).FileCh))]
    /\ UNCHANGED <<sessVars, nano, requests, handlerVars, relayVars, outClosed,
                   hist, crashed, auxVars>>

\* select case <-timeout.C in the outer select (the timer's 2 min may have
\* elapsed whenever the relay selects)
RelayTimeout(r) ==
    /\ ~crashed
    /\ rpc[r] = "loop"
    /\ Raise(r, "timeout waiting for response")
    /\ UNCHANGED <<sessVars, nano, regVars, handlerVars, rbridge, rin, 
                   sentReq, dpc, outVars, hist, crashed, auxVars>>

\* select case <-timeout.C while the delta waits to be sent on responseCh
RelayForwardTimeout(r) ==
    /\ ~crashed
    /\ rpc[r] = "fwd"
    /\ Raise(r, "timeout")
    /\ UNCHANGED <<sessVars, nano, regVars, handlerVars, rbridge, rin, 
                   sentReq, dpc, outVars, hist, crashed, auxVars>>

\* RelayChat returns: the deferred timeout.Stop and UnregisterRequest, the
\* latter when the relay had got as far as RegisterRequest
RelayReturn(r) ==
    /\ ~crashed
    /\ rpc[r] = "exit"
    /\ IF rbridge[r] # NoConn
       THEN UnregisterRequest(rbridge[r], r)
       ELSE UNCHANGED regVars
    /\ rpc' = [rpc EXCEPT ![r] = "closefile"]
    /\ UNCHANGED <<sessVars, nano, handlerVars, rbridge, rin, rerr, sentReq, dpc,
                   outVars, hist, crashed, auxVars>>

\* RelayChat's deferred close(fileCh), the first of the three closes
RelayCloseFile(r) ==
    /\ ~crashed
    /\ rpc[r] = "closefile"
    /\ outClosed' = [outClosed EXCEPT ![r] = TRUE]
    /\ rpc' = [rpc EXCEPT ![r] = "closeerror"]
    /\ UNCHANGED <<sessVars, nano, regVars, handlerVars, rbridge, rin, rerr, sentReq,
                   dpc, outFile, hist, crashed, auxVars>>

\* RelayChat's deferred close(errorCh), the second of the three closes:
\* handleChat takes it as the end of phase 1
RelayCloseError(r) ==
    /\ ~crashed
    /\ rpc[r] = "closeerror"
    /\ rpc' = [rpc EXCEPT ![r] = "closeresponse"]
    /\ UNCHANGED <<sessVars, nano, regVars, handlerVars, rbridge, rin, rerr, sentReq,
                   dpc, outVars, hist, crashed, auxVars>>

\* RelayChat's deferred close(responseCh), the last of the three closes
RelayCloseResponse(r) ==
    /\ ~crashed
    /\ rpc[r] = "closeresponse"
    /\ rpc' = [rpc EXCEPT ![r] = "returned"]
    /\ UNCHANGED <<sessVars, nano, regVars, handlerVars, rbridge, rin, rerr, sentReq,
                   dpc, outVars, hist, crashed, auxVars>>

\* drainFileEvents: a file from reqCh.FileCh is sent on fileCh without
\* blocking; a send on the closed fileCh panics outside any recover
DrainRecvFile(r) ==
    /\ ~crashed
    /\ dpc[r] = "run"
    /\ RelayReqCh(r).FileCh # <<>>
    /\ reqCh' = [reqCh EXCEPT ![r].FileCh = Tail(@)]
    /\ IF outClosed[r]
       THEN /\ crashed' = TRUE
            /\ UNCHANGED outFile
       ELSE /\ outFile' = [outFile EXCEPT ![r] = NonBlockingSend(@, OutFileCap, Head(RelayReqCh(r).FileCh))]
            /\ UNCHANGED crashed
    /\ UNCHANGED <<sessVars, nano, requests, handlerVars, relayVars, outClosed, hist,
                   auxVars>>

\* drainFileEvents returns: reqCh.FileCh closed and empty, or its timer fired
DrainReturn(r) ==
    /\ ~crashed
    /\ dpc[r] = "run"
    /\ dpc' = [dpc EXCEPT ![r] = "done"]
    /\ UNCHANGED <<sessVars, nano, regVars, handlerVars, rpc, rbridge, rin, rerr,
                    sentReq, outVars, hist, crashed, auxVars>>


\* ------------------------------------------------------------ handleChat
\* instanceIds a client may name: one that no bridge has, or a bridge's id
\* An instanceId no bridge has registered under ("nope")
UnknownInstance == 0 - 1

\* The instanceIds a client may name: the ids of the bridges and an unknown one
InstanceIds == ({UnknownInstance} \cup {conn[c].ID : c \in Conns}) \ {NoId}

Write(r, events) == sse' = [sse EXCEPT ![r] = @ \o events]

\* http.Error(w, text, code) without the return: the handler goes on to
\* start the relay
RejectNoReturn(r, code, text) ==
    /\ http' = [http EXCEPT ![r] = code]
    /\ body' = [body EXCEPT ![r] = text]
    /\ hpc' = [hpc EXCEPT ![r] = "done"]
    /\ rpc' = [rpc EXCEPT ![r] = "start"]
    /\ UNCHANGED <<nano, requestID>>

\* http.Error(w, text, code); return
Reject(r, code, text) ==
    /\ http' = [http EXCEPT ![r] = code]
    /\ body' = [body EXCEPT ![r] = text]
    /\ hpc' = [hpc EXCEPT ![r] = "done"]
    /\ UNCHANGED <<nano, requestID, rpc>>

\* handleChat up to the start of the relay on the body req: 400 when the
\* body is no JSON or fails ValidateChatRequest, 404 when the instance is
\* not in the registry, else SSE headers, the requestID that
\* generateRequestID returned and go RelayChat
handleChatReq(r, req, rid) ==
    /\ ~crashed
    /\ hpc[r] = "idle"
    /\ chatReq' = [chatReq EXCEPT ![r] = req]
    /\ inst' = [inst EXCEPT ![r] = IF req.json THEN req.InstanceID ELSE NoId]
    /\ IF ~req.json
       THEN Reject(r, 400, "Invalid JSON")
       ELSE IF ValidateChatRequest(req) # ""
       THEN Reject(r, 400, ValidateChatRequest(req))
       ELSE IF GetBridge(req.InstanceID) = NoConn
       THEN Reject(r, 404, "Instance not found")
       ELSE /\ http' = [http EXCEPT ![r] = 200]
            /\ requestID' = [requestID EXCEPT ![r] = rid]
            /\ nano' = Latest(rid)
            /\ hpc' = [hpc EXCEPT ![r] = "phase1"]
            /\ rpc' = [rpc EXCEPT ![r] = "start"]
            /\ UNCHANGED body
    /\ UNCHANGED <<sessVars, regVars, gone, sse, rbridge, rin, rerr,
                   sentReq, dpc, outVars, hist, crashed, wire, otherVars>>

\* handleChat on a body that passes validation and names the instance id
handleChatAt(r, id, rid) == handleChatReq(r, ValidBody(id), rid)

\* handleChat with any id generateRequestID may return
handleChat(r, id) == \E rid \in generateRequestID : handleChatAt(r, id, rid)

\* Phase 1, case delta, ok := <-responseCh, ok: the relay's send completes
HandlerRecvDelta(r) ==
    /\ ~crashed
    /\ hpc[r] = "phase1"
    /\ rpc[r] = "fwd"
    /\ Write(r, <<Event("delta", rin[r].Delta)>>)
    /\ AfterResponse(r, rin[r])
    /\ UNCHANGED <<sessVars, nano, regVars, hpc, http, gone, inst, requestID,
                   rbridge, rin, rerr,  sentReq, outVars, hist, crashed, auxVars>>

\* An error event with no [DONE] after it
ErrorEventsNoDone(msg) == <<Event("error", msg)>>

\* api.go:300-305: what handleChat writes for an error of the relay
ErrorEvents(msg) == <<Event("error", msg), DoneEvent>>

\* Phase 1, case err, ok := <-errorCh, ok: error event, [DONE], return
HandlerRecvError(r) ==
    /\ ~crashed
    /\ hpc[r] = "phase1"
    /\ rpc[r] = "errsend"
    /\ Write(r, ErrorEvents(rerr[r]))
    /\ hpc' = [hpc EXCEPT ![r] = "done"]
    /\ rpc' = [rpc EXCEPT ![r] = "exit"]
    /\ UNCHANGED <<sessVars, nano, regVars, http, gone, inst, requestID,
                   rbridge, rin, rerr,  sentReq, dpc, outVars, hist, crashed, auxVars>>

\* Phase 1, responseCh or errorCh closed: streaming = false
HandlerStreamClosed(r) ==
    /\ ~crashed
    /\ hpc[r] = "phase1"
    /\ rpc[r] \in {"closeresponse", "returned"}
    /\ hpc' = [hpc EXCEPT ![r] = "phase2"]
    /\ UNCHANGED <<sessVars, nano, regVars, http, gone, inst, requestID, sse,
                   relayVars, outVars, hist, crashed, auxVars>>

\* Events of the zero FileResponseMessage written so far
Spurious(r) == Cardinality({i \in 1..Len(sse[r]) : sse[r][i] = Event("file", 0)})

\* Phase 1, case fileMsg := <-fileCh: a buffered file, or the zero value
\* once fileCh is closed and empty
HandlerRecvFile(r) ==
    /\ ~crashed
    /\ hpc[r] = "phase1"
    /\ IF outFile[r] # <<>>
       THEN /\ Write(r, <<Event("file", Head(outFile[r]))>>)
            /\ outFile' = [outFile EXCEPT ![r] = Tail(@)]
       ELSE /\ outClosed[r]
            /\ Spurious(r) < MaxSpurious
            /\ Write(r, <<Event("file", 0)>>)
            /\ UNCHANGED outFile
    /\ UNCHANGED <<sessVars, nano, regVars, hpc, http, gone, inst, requestID,
                   relayVars, outClosed, hist, crashed, auxVars>>

\* Phase 2, case fileMsg, ok := <-fileCh: a file event, or [DONE] when closed
HandlerDrainFile(r) ==
    /\ ~crashed
    /\ hpc[r] = "phase2"
    /\ IF outFile[r] # <<>>
       THEN /\ Write(r, <<Event("file", Head(outFile[r]))>>)
            /\ outFile' = [outFile EXCEPT ![r] = Tail(@)]
            /\ UNCHANGED hpc
       ELSE /\ outClosed[r]
            /\ Write(r, <<DoneEvent>>)
            /\ hpc' = [hpc EXCEPT ![r] = "done"]
            /\ UNCHANGED outFile
    /\ UNCHANGED <<sessVars, nano, regVars, http, gone, inst, requestID,
                   relayVars, outClosed, hist, crashed, auxVars>>

\* Phase 2, case <-drainTimeout.C: [DONE]
HandlerDrainTimeout(r) ==
    /\ ~crashed
    /\ hpc[r] = "phase2"
    /\ Write(r, <<DoneEvent>>)
    /\ hpc' = [hpc EXCEPT ![r] = "done"]
    /\ UNCHANGED <<sessVars, nano, regVars, http, gone, inst, requestID,
                   relayVars, outVars, hist, crashed, auxVars>>

\* case <-r.Context().Done(): the client went away, handleChat returns
ClientDisconnect(r) ==
    /\ ~crashed
    /\ hpc[r] \in {"phase1", "phase2"}
    /\ gone' = [gone EXCEPT ![r] = TRUE]
    /\ hpc' = [hpc EXCEPT ![r] = "done"]
    /\ UNCHANGED <<sessVars, nano, regVars, http, inst, requestID, sse,
                   relayVars, outVars, hist, crashed, auxVars>>

\* ------------------------------ RelayChat on the session's own channels
\* The RelayChat of src/unnamed/part_009 and the handleChat of
\* src/unnamed/part_004: the relay selects on bridge.ResponseCh and
\* bridge.ErrorCh, the one pair of the session that the read loop of
\* auth.go sends into, and passes over what names another requestId.

\* RelayChat: GetBridge, "bridge not found" when nil
SharedGetBridge(r) ==
    LET bridge == GetBridge(inst[r]) IN
    /\ ~crashed
    /\ rpc[r] = "start"
    /\ IF bridge = NoConn
       THEN /\ Raise(r, "bridge not found")
            /\ UNCHANGED rbridge
       ELSE /\ rbridge' = [rbridge EXCEPT ![r] = bridge]
            /\ rpc' = [rpc EXCEPT ![r] = "send"]
            /\ UNCHANGED rerr
    /\ UNCHANGED <<sessVars, nano, regVars, handlerVars, rin, sentReq, dpc,
                   outVars, hist, crashed, auxVars>>

\* What a receive from a channel of the session returns: the head of its
\* buffer, or the zero value once removeBridge has closed it and it is empty
Receivable(c, ch, zero) ==
    IF conn[c][ch] # <<>> THEN {Head(conn[c][ch])}
    ELSE IF conn[c].chClosed THEN {zero} ELSE {}

\* The session's channel after a receive
Received(c, ch) ==
    IF conn[c][ch] # <<>> THEN [conn EXCEPT ![c][ch] = Tail(@)] ELSE conn

\* select case response := <-bridge.ResponseCh: the relay has taken the
\* response out of the session's channel
SharedRecvResponse(r) ==
    /\ ~crashed
    /\ rpc[r] = "loop"
    /\ \E response \in Receivable(rbridge[r], "ResponseCh", ZeroResponse) :
          rin' = [rin EXCEPT ![r] = response]
    /\ conn' = Received(rbridge[r], "ResponseCh")
    /\ rpc' = [rpc EXCEPT ![r] = "got"]
    /\ UNCHANGED <<nano, connections, regVars, handlerVars, rbridge, rerr, sentReq, dpc,
                   outVars, hist, crashed, auxVars>>

\* if response.RequestID != requestID { continue }; a non-empty delta is
\* sent on to handleChat; return on done
SharedFilterResponse(r) ==
    /\ ~crashed
    /\ rpc[r] = "got"
    /\ rpc' = [rpc EXCEPT ![r] = IF rin[r].RequestID # requestID[r] THEN "loop"
                                 ELSE IF rin[r].Delta # 0 THEN "fwd"
                                 ELSE IF rin[r].Done THEN "exit" ELSE "loop"]
    /\ UNCHANGED <<sessVars, nano, regVars, handlerVars, rbridge, rin, rerr, sentReq, dpc,
                   outVars, hist, crashed, auxVars>>

\* select case chatError := <-bridge.ErrorCh: passed over when it names
\* another requestId, else "chat error: ..." to handleChat
SharedRecvError(r) ==
    /\ ~crashed
    /\ rpc[r] = "loop"
    /\ \E chatError \in Receivable(rbridge[r], "ErrorCh", ZeroError) :
          IF chatError.RequestID # requestID[r]
          THEN UNCHANGED <<rpc, rerr>>
          ELSE Raise(r, "chat error")
    /\ conn' = Received(rbridge[r], "ErrorCh")
    /\ UNCHANGED <<nano, connections, regVars, handlerVars, rbridge, rin, sentReq, dpc,
                   outVars, hist, crashed, auxVars>>

\* select case <-timeout.C while the delta waits to be sent on responseCh
SharedForwardTimeout(r) ==
    /\ ~crashed
    /\ rpc[r] = "fwd"
    /\ Raise(r, "timeout waiting for response")
    /\ UNCHANGED <<sessVars, nano, regVars, handlerVars, rbridge, rin,
                   sentReq, dpc, outVars, hist, crashed, auxVars>>

\* RelayChat returns: the deferred timeout.Stop(); close(errorCh) and
\* close(responseCh) follow
SharedReturn(r) ==
    /\ ~crashed
    /\ rpc[r] = "exit"
    /\ rpc' = [rpc EXCEPT ![r] = "closeerror"]
    /\ UNCHANGED <<sessVars, nano, regVars, handlerVars, rbridge, rin, rerr, sentReq, dpc,
                   outVars, hist, crashed, auxVars>>

\* handleChat, case delta, ok := <-responseCh, ok: the relay's send completes
SharedHandlerRecvDelta(r) ==
    /\ ~crashed
    /\ hpc[r] = "phase1"
    /\ rpc[r] = "fwd"
    /\ Write(r, <<Event("delta", rin[r].Delta)>>)
    /\ rpc' = [rpc EXCEPT ![r] = IF rin[r].Done THEN "exit" ELSE "loop"]
    /\ UNCHANGED <<sessVars, nano, regVars, hpc, http, gone, inst, requestID,
                   rbridge, rin, rerr, sentReq, dpc, outVars, hist, crashed, auxVars>>

\* handleChat, case err, ok := <-errorCh with an error: error event, return
SharedHandlerRecvError(r) ==
    /\ ~crashed
    /\ hpc[r] = "phase1"
    /\ rpc[r] = "errsend"
    /\ Write(r, <<Event("error", rerr[r])>>)
    /\ hpc' = [hpc EXCEPT ![r] = "done"]
    /\ rpc' = [rpc EXCEPT ![r] = "exit"]
    /\ UNCHANGED <<sessVars, nano, regVars, http, gone, inst, requestID,
                   rbridge, rin, rerr, sentReq, dpc, outVars, hist, crashed, auxVars>>

\* handleChat, responseCh or errorCh closed: [DONE], return
SharedHandlerStreamClosed(r) ==
    /\ ~crashed
    /\ hpc[r] = "phase1"
    /\ rpc[r] \in {"closeresponse", "returned"}
    /\ Write(r, <<DoneEvent>>)
    /\ hpc' = [hpc EXCEPT ![r] = "done"]
    /\ UNCHANGED <<sessVars, nano, regVars, http, gone, inst, requestID,
                   relayVars, outVars, hist, crashed, auxVars>>

\* The RelayChat goroutine of a request
SharedRelayChat(r) ==
    \/ SharedGetBridge(r)
    \/ RelaySendHeader(r)
    \/ RelaySendBody(r)
    \/ SharedRecvResponse(r)
    \/ SharedFilterResponse(r)
    \/ SharedRecvError(r)
    \/ RelayTimeout(r)
    \/ SharedForwardTimeout(r)
    \/ SharedReturn(r)
    \/ RelayCloseError(r)
    \/ RelayCloseResponse(r)

\* The select loop of handleChat
SharedSSELoop(r) ==
    \/ SharedHandlerRecvDelta(r)
    \/ SharedHandlerRecvError(r)
    \/ SharedHandlerStreamClosed(r)
    \/ ClientDisconnect(r)

\* ---------------------------------------------------------- specification
RelayChat(r) ==
    \/ RelayGetBridge(r)
    \/ RelayRegisterRequest(r)
    \/ RelaySendHeader(r)
    \/ RelaySendBody(r)
    \/ RelayRecvResponse(r)
    \/ RelayChannelClosed(r)
    \/ RelayRecvError(r)
    \/ RelayRecvFile(r)
    \/ RelayTimeout(r)
    \/ RelayForwardTimeout(r)
    \/ RelayReturn(r)
    \/ RelayCloseFile(r)
    \/ RelayCloseError(r)
    \/ RelayCloseResponse(r)

drainFileEvents(r) ==
    \/ DrainRecvFile(r)
    \/ DrainReturn(r)

SSELoop(r) ==
    \/ HandlerRecvDelta(r)
    \/ HandlerRecvError(r)
    \/ HandlerStreamClosed(r)
    \/ HandlerRecvFile(r)
    \/ HandlerDrainFile(r)
    \/ HandlerDrainTimeout(r)
    \/ ClientDisconnect(r)

\* The steps of connections CS and requests RS
Step(CS, RS) ==
    \/ \E c \in CS :
          \/ Accept(c)
          \/ \E first \in FirstFrames : handleBridgeConnection(c, first)
          \/ BridgeClose(c)
          \/ BridgeSession(c)
    \/ heartbeatChecker
    \/ \E r \in RS :
          \/ \E id \in InstanceIds : handleChat(r, id)
          \/ RelayChat(r)
          \/ drainFileEvents(r)
          \/ SSELoop(r)

\* One client request, one bridge connection
Next == Step({1}, {1})

Spec == Init /\ [][Next]_vars

\* One session and one request while the supervisor's ticker does not fire
NextStream ==
    \/ \E c \in {1} :
          \/ Accept(c)
          \/ \E first \in FirstFrames : handleBridgeConnection(c, first)
          \/ BridgeClose(c)
          \/ BridgeSession(c)
    \/ \E r \in {1} :
          \/ \E id \in InstanceIds : handleChat(r, id)
          \/ RelayChat(r)
          \/ drainFileEvents(r)
          \/ SSELoop(r)

SpecStream == Init /\ [][NextStream]_vars

\* The bridge has chat_response frames left to send
MoreDeltas == nframes < MaxDeltas

\* The bridge has not sent a done=true frame for the request with this id
Unfinished(c, rid) ==
    \A r \in Addressee(c, rid) : \A i \in 1..Len(hist[r]) : ~hist[r][i].done

\* One session and one request whose bridge answers with chat_response
\* frames, with and without a delta, as many as fill the request's delta
\* channel and more, the done=true frame being its last; the bridge may
\* close its end, the client may leave and the timers may fire
NextOrder ==
    \/ \E c \in {1} :
          \/ Accept(c)
          \/ \E first \in FirstFrames : handleBridgeConnection(c, first)
          \/ BridgeClose(c)
          \/ bridgeSessionEnd(c)
          \/ bridgeConnClose(c)
          \/ ReadControlFrame(c)
          \/ \E rid \in FrameRids(c) : \E empty \in BOOLEAN, done \in BOOLEAN :
                /\ MoreDeltas
                /\ Unfinished(c, rid)
                /\ DispatchChatResponse(c, rid, empty, done)
    \/ \E r \in {1} :
          \/ \E id \in InstanceIds : handleChat(r, id)
          \/ RelayGetBridge(r)
          \/ RelayRegisterRequest(r)
          \/ RelaySendHeader(r)
          \/ RelaySendBody(r)
          \/ RelayRecvResponse(r)
          \/ RelayChannelClosed(r)
          \/ RelayTimeout(r)
          \/ RelayForwardTimeout(r)
          \/ RelayReturn(r)
          \/ RelayCloseFile(r)
          \/ RelayCloseError(r)
          \/ RelayCloseResponse(r)
          \/ DrainReturn(r)
          \/ SSELoop(r)

SpecOrder == Init /\ [][NextOrder]_vars

\* The steps of RelayChat for a request the bridge sends no frame for
RelayUnanswered(r) ==
    \/ RelayGetBridge(r)
    \/ RelayRegisterRequest(r)
    \/ RelaySendHeader(r)
    \/ RelaySendBody(r)
    \/ RelayChannelClosed(r)
    \/ RelayTimeout(r)
    \/ RelayReturn(r)
    \/ RelayCloseFile(r)
    \/ RelayCloseError(r)
    \/ RelayCloseResponse(r)

\* One supervised session whose bridge sends heartbeats, frames of unknown
\* type, frames that are no JSON and chat_response and chat_error frames
\* that name no request, and one request the bridge never answers
NextSession ==
    \/ \E c \in {1} :
          \/ Accept(c)
          \/ \E first \in FirstFrames : handleBridgeConnection(c, first)
          \/ BridgeClose(c)
          \/ bridgeSessionEnd(c)
          \/ bridgeConnClose(c)
          \/ HandleHeartbeat(c)
          \/ HandleUnknownType(c)
          \/ HandleBadJSON(c)
          \/ ReadStrayResponse(c)
          \/ ReadStrayError(c)
    \/ heartbeatChecker
    \/ \E r \in {1} :
          \/ \E id \in InstanceIds : handleChat(r, id)
          \/ RelayUnanswered(r)
          \/ HandlerRecvError(r)
          \/ ClientDisconnect(r)

SpecSession == Init /\ [][NextSession]_vars

\* One supervised session whose bridge sends heartbeats, frames of unknown
\* type, frames that are no JSON and chat_response frames, and one request
NextSupervised ==
    \/ \E c \in {1} :
          \/ Accept(c)
          \/ \E first \in FirstFrames : handleBridgeConnection(c, first)
          \/ BridgeClose(c)
          \/ bridgeSessionEnd(c)
          \/ bridgeConnClose(c)
          \/ HandleHeartbeat(c)
          \/ HandleUnknownType(c)
          \/ HandleBadJSON(c)
          \/ \E rid \in FrameRids(c) : \E empty \in BOOLEAN, done \in BOOLEAN :
                MoreFrames /\ DispatchChatResponse(c, rid, empty, done)
    \/ heartbeatChecker
    \/ \E r \in {1} :
          \/ \E id \in InstanceIds : handleChat(r, id)
          \/ RelayUnanswered(r)
          \/ RelayRecvResponse(r)
          \/ RelayForwardTimeout(r)
          \/ DrainReturn(r)
          \/ SSELoop(r)

SpecSupervised == Init /\ [][NextSupervised]_vars

\* The goroutines of the request run when they can
SpecSessionLive ==
    /\ SpecSession
    /\ \A r \in {1} :
          /\ WF_vars(RelayUnanswered(r))
          /\ WF_vars(HandlerRecvError(r))

\* Two client requests and one bridge connection with the RelayChat that
\* selects on the session's own channels. The clock advances from one
\* requestId to the next, the bridge sends chat_response and chat_error
\* frames for the requests and may close its end, the clients may leave and
\* the timers may fire
NextShared ==
    \/ \E c \in {1} :
          \/ Accept(c)
          \/ \E first \in FirstFrames : handleBridgeConnection(c, first)
          \/ BridgeClose(c)
          \/ bridgeReturn(c)
          \/ bridgeConnClose(c)
          \/ ReadControlFrame(c)
          \/ MoreFrames /\ ReadSharedFrame(c)
    \/ \E r \in Reqs :
          \/ \E id \in InstanceIds : handleChatAt(r, id, nano + 1)
          \/ SharedRelayChat(r)
          \/ SharedSSELoop(r)

SpecShared == Init /\ [][NextShared]_vars

\* Two client requests and one bridge connection with the RelayChat that
\* selects on the session's own channels, while the clients read nothing
\* from their streams and the bridge goes on sending frames for them
NextStuck ==
    \/ \E c \in {1} :
          \/ Accept(c)
          \/ \E first \in FirstFrames : handleBridgeConnection(c, first)
          \/ ReadControlFrame(c)
          \/ MoreShared /\ ReadSharedFrame(c)
    \/ \E r \in Reqs :
          \/ \E id \in InstanceIds : handleChatAt(r, id, nano + 1)
          \/ SharedGetBridge(r)
          \/ RelaySendHeader(r)
          \/ RelaySendBody(r)
          \/ SharedRecvResponse(r)
          \/ SharedFilterResponse(r)
          \/ SharedRecvError(r)

SpecStuck == Init /\ [][NextStuck]_vars

\* One client request and one bridge connection with the RelayChat that
\* selects on the session's own channels; the bridge sends frames of every
\* kind, for the request and for no request, and may close its end
NextLate ==
    \/ \E c \in {1} :
          \/ Accept(c)
          \/ \E first \in FirstFrames : handleBridgeConnection(c, first)
          \/ BridgeClose(c)
          \/ bridgeReturn(c)
          \/ bridgeConnClose(c)
          \/ ReadControlFrame(c)
          \/ MoreFrames /\ ReadSharedFrame(c)
          \/ ReadStrayResponse(c)
          \/ ReadStrayError(c)
    \/ \E r \in {1} :
          \/ \E id \in InstanceIds : handleChat(r, id)
          \/ SharedRelayChat(r)
          \/ SharedSSELoop(r)

SpecLate == Init /\ [][NextLate]_vars

\* A chat_response frame read on a session whose channel pair removeBridge
\* has closed, which it does for whatever session is stored under the id
ReadAfterClose(c) == conn[c].chClosed /\ ReadStrayResponse(c)

\* Two bridges and two client requests up to the registration of the
\* request channels, with ids taken from clock readings that may coincide
NextClock ==
    \/ \E c \in Conns :
          \/ Accept(c)
          \/ \E first \in FirstFrames, id \in ClockReadings :
                handleBridgeConnectionAt(c, first, id)
          \/ BridgeClose(c)
          \/ bridgeSessionEnd(c)
          \/ bridgeConnClose(c)
          \/ ReadAfterClose(c)
    \/ \E r \in Reqs :
          \/ \E id \in InstanceIds, rid \in ClockReadings : handleChatAt(r, id, rid)
          \/ RelayGetBridge(r)
          \/ RelayRegisterRequest(r)
          \/ RelaySendHeader(r)
          \/ RelaySendBody(r)
          \/ ClientDisconnect(r)

SpecClock == Init /\ [][NextClock]_vars

\* ----------------------------------------------------- notification hub
\* The calls of SendTo and Broadcast that hold h.mu.RLock
Running == {n \in 1..Len(notes) : notes[n].pc = "loop"}

\* h.mu.Lock can be taken: no call holds the read lock
Unlocked == Running = {}

\* One more call may take the read lock
ReaderFree == Cardinality(Running) < Cardinality(Readers)

\* No goroutine has panicked
HubRuns == \A n \in 1..Len(notes) : notes[n].pc # "panic"

\* HandleWebSocket: upgrade, a NotificationConn with an empty instanceID and
\* a send channel, addClient, go writer, go reader
HandleWebSocket(k) ==
    /\ HubRuns
    /\ Unlocked
    /\ ncl[k].state = "none"
    /\ ncl' = [ncl EXCEPT ![k].state = "open"]
    /\ hub' = hub \cup {k}
    /\ UNCHANGED <<coreVars, khub, dev, pipe, vosk, frame, timer, stt, validateVars, notes, fcmVars>>

\* Reader goroutine: an identify message with a string instanceId
Identify(k, id) ==
    /\ HubRuns
    /\ ncl[k].state = "open"
    /\ ncl' = [ncl EXCEPT ![k].instanceID = id]
    /\ UNCHANGED <<coreVars, khub, dev, pipe, vosk, frame, timer, stt, validateVars, hub, notes, fcmVars>>

\* A reader that closes the send channel before it removes the client
ReaderDeferCloseFirst == <<"close", "remove">>

\* The deferred function of the reader goroutine: removeClient, under the
\* write lock, then close(client.send)
ReaderDefer == <<"remove", "close">>

\* One call of the reader's deferred function for client k; removeClient
\* waits for the write lock
ReaderCall(k, call) ==
    /\ HubRuns
    /\ call = "remove" => Unlocked
    /\ hub' = IF call = "remove" THEN hub \ {k} ELSE hub
    /\ ncl' = [ncl EXCEPT ![k].sendClosed = (@ \/ call = "close"),
                          ![k].state = IF ncl[k].state = "open" THEN "exiting" ELSE "closed"]
    /\ UNCHANGED <<coreVars, khub, dev, pipe, vosk, frame, timer, stt, validateVars, notes, fcmVars>>

\* Reader goroutine: conn.ReadMessage fails and the deferred function starts
ReaderFail(k) == ncl[k].state = "open" /\ ReaderCall(k, ReaderDefer[1])

\* Reader goroutine: the deferred function completes
ReaderFinish(k) == ncl[k].state = "exiting" /\ ReaderCall(k, ReaderDefer[2])

\* Writer goroutine, case msg, ok := <-client.send with ok: WriteMessage,
\* which fails when the peer is gone, whether or not the reader has seen
\* it yet; return and conn.Close on a failed write
WriterWrite(k) ==
    /\ HubRuns
    /\ ncl[k].state # "none"
    /\ ~ncl[k].wdone
    /\ ncl[k].send # <<>>
    /\ \E ok \in BOOLEAN :
          ncl' = [ncl EXCEPT ![k].send = Tail(@), ![k].wdone = ~ok]
    /\ UNCHANGED <<coreVars, khub, dev, pipe, vosk, frame, timer, stt, validateVars, hub, notes, fcmVars>>

\* Writer goroutine, case <-pingTicker.C: a ping written to the client; a
\* failed write ends the writer with what is left in client.send
WriterPing(k) ==
    /\ HubRuns
    /\ ncl[k].state # "none"
    /\ ~ncl[k].wdone
    /\ \E ok \in BOOLEAN : ncl' = [ncl EXCEPT ![k].wdone = ~ok]
    /\ UNCHANGED <<coreVars, khub, dev, pipe, vosk, frame, timer, stt, validateVars, hub, notes, fcmVars>>

\* Writer goroutine, !ok: the send channel is closed and empty; return, conn.Close
WriterReturn(k) ==
    /\ HubRuns
    /\ ~ncl[k].wdone
    /\ ncl[k].sendClosed
    /\ ncl[k].send = <<>>
    /\ ncl' = [ncl EXCEPT ![k].wdone = TRUE]
    /\ UNCHANGED <<coreVars, khub, dev, pipe, vosk, frame, timer, stt, validateVars, hub, notes, fcmVars>>

\* SendTo with every client taken as a match
MatchesAny(client, instanceID) == TRUE

\* SendTo: client.instanceID == instanceID || instanceID == ""
Matches(client, instanceID) == client.instanceID = instanceID \/ instanceID = ""

\* What a call knows of a client it has not visited
NotVisited == [id |-> NotConnected, room |-> FALSE]

\* The response of a call that has not yet counted the clients
NoCount == 0 - 1

\* The record of a call of SendTo or Broadcast that has taken the read lock:
\* todo are the clients its range over h.clients has yet to visit, found what
\* it met at each client it visited, sent the clients it put its notification
\* into the send channel of, hit whether a client has matched, clients the
\* client count of its response
Call(call, instanceID) ==
    [call |-> call, target |-> instanceID, pc |-> "loop", todo |-> hub,
     found |-> [k \in Clients |-> NotVisited], sent |-> {}, hit |-> FALSE,
     clients |-> NoCount]

\* A call that has released the read lock: its target and what it met at
\* each client are no longer kept
Returned(note, pc) ==
    [note EXCEPT !.pc = pc, !.target = "",
                 !.found = [k \in Clients |-> NotVisited], !.sent = {}]

\* One iteration of the range over h.clients, for client k, in a call that
\* holds the read lock: select { case client.send <- data: default: } when
\* the client is one to send to, a panic when its send channel is closed;
\* rest are the clients the range goes on to
Visit(n, k, match, rest) ==
    LET room == Len(ncl[k].send) < SendCap IN
    /\ HubRuns
    /\ n \in Running
    /\ k \in notes[n].todo
    /\ IF match /\ ncl[k].sendClosed
       THEN /\ notes' = [notes EXCEPT ![n].pc = "panic"]
            /\ UNCHANGED ncl
       ELSE /\ ncl' = IF match
                      THEN [ncl EXCEPT ![k].send = NonBlockingSend(@, SendCap, n)]
                      ELSE ncl
            /\ notes' = [notes EXCEPT ![n].todo = rest,
                                      ![n].found[k] = [id |-> ncl[k].instanceID, room |-> room],
                                      ![n].sent = IF match /\ room THEN @ \cup {k} ELSE @,
                                      ![n].hit = @ \/ match]
    /\ UNCHANGED <<coreVars, khub, dev, pipe, vosk, frame, timer, stt, validateVars, hub, fcmVars>>

\* SendTo whose range ends at the first matching client whose buffer is full
SendToUntilFull(n, k) ==
    /\ n \in Running
    /\ notes[n].call = "SendTo"
    /\ Visit(n, k, Matches(ncl[k], notes[n].target),
             IF Matches(ncl[k], notes[n].target) /\ Len(ncl[k].send) >= SendCap
             THEN {} ELSE notes[n].todo \ {k})

\* SendTo, one iteration of the range over h.clients under the read lock: a
\* non-blocking send of the notification to client k if it matches
SendTo(n, k) ==
    /\ n \in Running
    /\ notes[n].call = "SendTo"
    /\ Visit(n, k, Matches(ncl[k], notes[n].target), notes[n].todo \ {k})

\* SendTo, after the range: the deferred RUnlock, return to the handler
SendToReturn(n) ==
    /\ HubRuns
    /\ n \in Running
    /\ notes[n].call = "SendTo"
    /\ notes[n].todo = {}
    /\ notes' = [notes EXCEPT ![n] = Returned(@, "respond")]
    /\ UNCHANGED <<coreVars, khub, dev, pipe, vosk, frame, timer, stt, validateVars, hub, ncl, fcmVars>>

\* HandleSendNotification: decode the body, and SendTo up to its RLock
HandleSendNotification(instanceID) ==
    /\ HubRuns
    /\ Len(notes) < MaxNotes
    /\ ReaderFree
    /\ notes' = Append(notes, Call("SendTo", instanceID))
    /\ UNCHANGED <<coreVars, khub, dev, pipe, vosk, frame, timer, stt, validateVars, hub, ncl, fcmVars>>

\* HandleSendNotification, after SendTo: answer with h.ClientCount(), which
\* takes the read lock for itself
NotificationRespond(n) ==
    /\ HubRuns
    /\ notes[n].pc = "respond"
    /\ notes' = [notes EXCEPT ![n].pc = "done", ![n].clients = Cardinality(hub)]
    /\ UNCHANGED <<coreVars, khub, dev, pipe, vosk, frame, timer, stt, validateVars, hub, ncl, fcmVars>>

\* Broadcast: marshal the notification, RLock
CallBroadcast ==
    /\ HubRuns
    /\ Len(notes) < MaxNotes
    /\ ReaderFree
    /\ notes' = Append(notes, Call("Broadcast", ""))
    /\ UNCHANGED <<coreVars, khub, dev, pipe, vosk, frame, timer, stt, validateVars, hub, ncl, fcmVars>>

\* Broadcast, one iteration of the range over h.clients under the read
\* lock: a non-blocking send of the notification to client k
Broadcast(n, k) ==
    /\ n \in Running
    /\ notes[n].call = "Broadcast"
    /\ Visit(n, k, TRUE, notes[n].todo \ {k})

\* Broadcast, after the range: the deferred RUnlock
BroadcastReturn(n) ==
    /\ HubRuns
    /\ n \in Running
    /\ notes[n].call = "Broadcast"
    /\ notes[n].todo = {}
    /\ notes' = [notes EXCEPT ![n] = Returned(@, "done")]
    /\ UNCHANGED <<coreVars, khub, dev, pipe, vosk, frame, timer, stt, validateVars, hub, ncl, fcmVars>>

\* The steps of the calls of SendTo that have taken the read lock
SendToCalls ==
    \E n \in 1..Len(notes) :
        \/ \E k \in Clients : SendTo(n, k)
        \/ SendToReturn(n)

\* The steps of the calls of Broadcast that have taken the read lock
BroadcastCalls ==
    \E n \in 1..Len(notes) :
        \/ \E k \in Clients : Broadcast(n, k)
        \/ BroadcastReturn(n)

\* The calls of HandleSendPush that hold fm.mu.RLock
Pushing == {p \in 1..Len(fcmCalls) : fcmCalls[p].pc = "locked"}

\* HandleRegister, RegisterToken: under fm.mu.Lock, which waits for the
\* calls that hold the read lock, a token stored for the instanceId, for
\* "default" when the instanceId is empty
HandleRegister(id) ==
    /\ Pushing = {}
    /\ tokens' = tokens \cup {IF id = "" THEN "default" ELSE id}
    /\ UNCHANGED <<coreVars, khub, dev, pipe, vosk, frame, timer, stt, validateVars, hubVars, pushed, fcmCalls>>

\* SendPushTo: the token of the instanceId, else the one of "default", else
\* any token; no token, no push
PushTokens(id) ==
    IF id \in tokens THEN {id}
    ELSE IF "default" \in tokens THEN {"default"}
    ELSE tokens

\* A message sent to the push service by endpoint or notify call by
Push(by, token) == [by |-> by, token |-> token]

\* What a call of sendToToken comes to: the push service answers 200; it
\* answers another status; or getAccessToken, NewRequest or Do fails and no
\* message reaches the push service
SendOutcomes == {"ok", "refused", "unsent"}

\* sendToToken for the notify call or endpoint by: the messages that reach
\* the push service
sendToToken(by, token, outcome) ==
    IF outcome = "unsent" THEN <<>> ELSE <<Push(by, token)>>

\* The entries a call for the instanceId may set out to send to, once it
\* holds the read lock: every entry of fm.tokens for the empty instanceId
\* (SendPush), else the one entry SendPushTo finds, or none
PushTargets(id) ==
    IF id = "" THEN {tokens}
    ELSE IF PushTokens(id) = {} THEN {{}}
    ELSE {{token} : token \in PushTokens(id)}

\* A call of HandleSendPush that holds the read lock
PushCall(id, todo) ==
    [target |-> id, pc |-> "locked", todo |-> todo,
     err |-> (id # "" /\ todo = {}), status |-> 0]

\* HandleSendPush (POST /api/fcm/send) up to the read lock of SendPushTo,
\* for an instanceId, or SendPush, for an empty one; SendPushTo looks its
\* token up and has an error when no token is stored
HandleSendPush(id) ==
    /\ Len(fcmCalls) < MaxPushes
    /\ \E todo \in PushTargets(id) : fcmCalls' = Append(fcmCalls, PushCall(id, todo))
    /\ UNCHANGED <<coreVars, khub, dev, pipe, vosk, frame, timer, stt, validateVars, hubVars, tokens, pushed>>

\* SendPush, one iteration of the range over fm.tokens, and the one call of
\* SendPushTo: sendToToken under the read lock; its error is the call's
SendPush(p, token, outcome) ==
    /\ p \in Pushing
    /\ token \in fcmCalls[p].todo
    /\ pushed' = pushed \o sendToToken(0, token, outcome)
    /\ fcmCalls' = [fcmCalls EXCEPT ![p].todo = @ \ {token},
                                    ![p].err = @ \/ outcome # "ok"]
    /\ UNCHANGED <<coreVars, khub, dev, pipe, vosk, frame, timer, stt, validateVars, hubVars, tokens>>

\* SendPush, SendPushTo: the return, which releases the read lock
SendPushReturn(p) ==
    /\ p \in Pushing
    /\ fcmCalls[p].todo = {}
    /\ fcmCalls' = [fcmCalls EXCEPT ![p].pc = "returned"]
    /\ UNCHANGED <<coreVars, khub, dev, pipe, vosk, frame, timer, stt, validateVars, hubVars, tokens, pushed>>

\* HandleSendPush: the answer, 500 when the call returned an error, else 200
PushRespond(p) ==
    /\ p \in 1..Len(fcmCalls)
    /\ fcmCalls[p].pc = "returned"
    /\ fcmCalls' = [fcmCalls EXCEPT ![p].pc = "done",
                                    ![p].status = IF fcmCalls[p].err THEN 500 ELSE 200]
    /\ UNCHANGED <<coreVars, khub, dev, pipe, vosk, frame, timer, stt, validateVars, hubVars, tokens, pushed>>

\* The steps of the calls of HandleSendPush that have taken the read lock
PushCalls ==
    \E p \in 1..Len(fcmCalls) :
        \/ \E token \in TokenKeys, outcome \in SendOutcomes :
              SendPush(p, token, outcome)
        \/ SendPushReturn(p)
        \/ PushRespond(p)

\* The notification hub with its clients, each of which identifies at most once
NextHub ==
    \/ \E k \in Clients :
          \/ HandleWebSocket(k)
          \/ \E id \in HubIds : ncl[k].instanceID = "" /\ Identify(k, id)
          \/ ReaderFail(k)
          \/ ReaderFinish(k)
          \/ WriterWrite(k)
          \/ WriterPing(k)
          \/ WriterReturn(k)
    \/ \E id \in HubIds \cup {""} : HandleSendNotification(id)
    \/ SendToCalls
    \/ \E n \in 1..Len(notes) : NotificationRespond(n)

SpecHub == Init /\ [][NextHub]_vars

\* The notification and push endpoints with one WebSocket client
NextNotify ==
    \/ HandleWebSocket(1)
    \/ \E id \in HubIds : Identify(1, id)
    \/ ReaderFail(1)
    \/ ReaderFinish(1)
    \/ \E id \in HubIds \cup {""} : HandleSendNotification(id)
    \/ SendToCalls
    \/ \E n \in 1..Len(notes) : NotificationRespond(n)
    \/ \E id \in HubIds \cup {""} : HandleRegister(id) \/ HandleSendPush(id)
    \/ PushCalls

SpecNotify == InitTokens /\ [][NextNotify]_vars

\* ------------------------------------------------------------ STT proxy
\* handleWS: the WebSocket upgrade of the client; return when it fails
STTUpgrade ==
    /\ stt.hpc = "idle"
    /\ \/ stt' = [stt EXCEPT !.hpc = "dial", !.clientPeer = TRUE]
       \/ stt' = [stt EXCEPT !.hpc = "exit"]
    /\ UNCHANGED <<coreVars, khub, dev, pipe, vosk, frame, timer, validateVars, hubVars, fcmVars>>

\* handleWS: dial the recognizer; on failure an error frame to the client
\* and return (deferred clientConn.Close), else start both pumps and wait
STTDial ==
    /\ stt.hpc = "dial"
    /\ \/ stt' = [stt EXCEPT !.hpc = "wait", !.voskPeer = TRUE,
                              !.toVosk = "run", !.toClient = "run"]
       \/ stt' = [stt EXCEPT !.hpc = "exit", !.clientClosed = TRUE,
                              !.down = IF stt.clientPeer THEN Append(@, "error") ELSE @]
    /\ UNCHANGED <<coreVars, khub, dev, pipe, vosk, frame, timer, validateVars, hubVars, fcmVars>>

\* The client goes away
STTClientClose ==
    /\ stt.clientPeer
    /\ stt' = [stt EXCEPT !.clientPeer = FALSE]
    /\ UNCHANGED <<coreVars, khub, dev, pipe, vosk, frame, timer, validateVars, hubVars, fcmVars>>

\* The recognizer closes its end
STTVoskClose ==
    /\ stt.voskPeer
    /\ stt' = [stt EXCEPT !.voskPeer = FALSE]
    /\ UNCHANGED <<coreVars, khub, dev, pipe, vosk, frame, timer, validateVars, hubVars, fcmVars>>

\* voskConn.WriteMessage, its error ignored: the recognizer receives the
\* frames while its end is open
ToVosk(frames) == IF stt.voskPeer /\ ~stt.voskClosed THEN stt.up \o frames ELSE stt.up

\* Pump client -> recognizer: a text or binary message read and forwarded
PumpForward(kind) ==
    /\ stt.toVosk = "run"
    /\ stt.clientPeer
    /\ Cardinality({i \in 1..Len(stt.up) : stt.up[i] # "eof"}) < MaxAudio
    /\ stt' = [stt EXCEPT !.up = ToVosk(<<kind>>)]
    /\ UNCHANGED <<coreVars, khub, dev, pipe, vosk, frame, timer, validateVars, hubVars, fcmVars>>

\* A pump that returns on a read error without a last frame
NoSentinel == <<>>

\* The frames the pump sends the recognizer when the client read fails
Sentinel == <<"eof">>

\* Pump client -> recognizer: clientConn.ReadMessage fails; {"eof":1} to
\* the recognizer and return
PumpClientGone ==
    /\ stt.toVosk = "run"
    /\ ~stt.clientPeer
    /\ stt' = [stt EXCEPT !.up = ToVosk(Sentinel), !.toVosk = "done"]
    /\ UNCHANGED <<coreVars, khub, dev, pipe, vosk, frame, timer, validateVars, hubVars, fcmVars>>

\* Pump recognizer -> client: a message read; one that is no JSON or has
\* neither a partial nor a final text is skipped, else the result is
\* written to the client, and the pump returns when that write fails
PumpResult(kind) ==
    /\ stt.toClient = "run"
    /\ stt.voskPeer
    /\ stt.results < MaxResults
    /\ IF kind = "skip"
       THEN stt' = [stt EXCEPT !.results = @ + 1]
       ELSE \E ok \in (IF stt.clientPeer THEN {TRUE} ELSE {TRUE, FALSE}) :
               stt' = [stt EXCEPT !.results = @ + 1,
                                  !.down = IF ok /\ stt.clientPeer THEN Append(@, kind) ELSE @,
                                  !.toClient = IF ok THEN "run" ELSE "done"]
    /\ UNCHANGED <<coreVars, khub, dev, pipe, vosk, frame, timer, validateVars, hubVars, fcmVars>>

\* Pump recognizer -> client: voskConn.ReadMessage fails; return
PumpVoskGone ==
    /\ stt.toClient = "run"
    /\ ~stt.voskPeer
    /\ stt' = [stt EXCEPT !.toClient = "done"]
    /\ UNCHANGED <<coreVars, khub, dev, pipe, vosk, frame, timer, validateVars, hubVars, fcmVars>>

\* handleWS: wg.Wait returns once both pumps have returned; the deferred
\* voskConn.Close and clientConn.Close
STTReturn ==
    /\ stt.hpc = "wait"
    /\ stt.toVosk = "done" /\ stt.toClient = "done"
    /\ stt' = [stt EXCEPT !.hpc = "exit", !.voskClosed = TRUE, !.clientClosed = TRUE]
    /\ UNCHANGED <<coreVars, khub, dev, pipe, vosk, frame, timer, validateVars, hubVars, fcmVars>>

NextSTT ==
    \/ STTUpgrade
    \/ STTDial
    \/ STTClientClose
    \/ STTVoskClose
    \/ \E kind \in {"text", "binary"} : PumpForward(kind)
    \/ PumpClientGone
    \/ \E kind \in {"skip", "partial", "final"} : PumpResult(kind)
    \/ PumpVoskGone
    \/ STTReturn

SpecSTT == Init /\ [][NextSTT]_vars

\* Roles and contents of the messages given to ValidateChatRequest
Roles == {"", "user", "assistant", "system", "tool"}
Contents == {"", "hi"}

\* Message lists of at most n messages
RECURSIVE MessageLists(_)
MessageLists(n) ==
    IF n = 0 THEN {<<>>}
    ELSE MessageLists(n - 1) \cup
         {Append(l, Message(role, content)) :
             l \in {k \in MessageLists(n - 1) : Len(k) = n - 1},
             role \in Roles, content \in Contents}

\* Requests given to ValidateChatRequest
ValidateInputs ==
    {[json |-> TRUE, InstanceID |-> id, Messages |-> m] :
        id \in {NoId, 1}, m \in MessageLists(MaxMessages)}

\* A call of ValidateChatRequest
Validate(req) ==
    /\ verr = NotRun
    /\ vreq' = req
    /\ verr' = ValidateChatRequest(req)
    /\ UNCHANGED <<coreVars, khub, dev, pipe, vosk, frame, timer, stt, hubVars, fcmVars>>

NextValidate == \E req \in ValidateInputs : Validate(req)

SpecValidate == Init /\ [][NextValidate]_vars

\* Message lists a client may post: none, a valid one, one with a role that
\* is not allowed, one without content
PostedMessages ==
    {<<>>, <<Message("user", "hi")>>, <<Message("tool", "hi")>>, <<Message("user", "")>>}

\* Bodies a client may post: one that is no JSON, and the JSON bodies with
\* an empty, an unknown or a registered instanceId
PostedBodies ==
    {NoRequest} \cup
    {[json |-> TRUE, InstanceID |-> id, Messages |-> m] :
        id \in InstanceIds \cup {NoId}, m \in PostedMessages}

\* One bridge that connects and disconnects, two client requests with any
\* body up to the chat_request frame
NextChat ==
    \/ Accept(1)
    \/ \E first \in FirstFrames : handleBridgeConnection(1, first)
    \/ BridgeClose(1)
    \/ bridgeSessionEnd(1)
    \/ bridgeConnClose(1)
    \/ \E r \in Reqs :
          \/ \E req \in PostedBodies : \E rid \in generateRequestID : handleChatReq(r, req, rid)
          \/ RelayGetBridge(r)
          \/ RelayRegisterRequest(r)
          \/ RelaySendHeader(r)
          \/ RelaySendBody(r)
          \/ ClientDisconnect(r)

SpecChat == Init /\ [][NextChat]_vars

\* Two client requests and one bridge connection, SendMessage taken write
\* by write; the bridge may close its end
NextWire ==
    \/ Accept(1)
    \/ \E first \in FirstFrames : handleBridgeConnection(1, first)
    \/ BridgeClose(1)
    \/ \E r \in Reqs :
          \/ \E id \in InstanceIds : handleChat(r, id)
          \/ RelayGetBridge(r)
          \/ RelayRegisterRequest(r)
          \/ RelaySendHeader(r)
          \/ RelaySendBody(r)
          \/ RelayTimeout(r)
          \/ ClientDisconnect(r)

SpecWire == Init /\ [][NextWire]_vars

\* ------------------------------------------------------------ properties
\* The request a payload token was sent for
Owner(v) == v \div 10

\* The position, among the frames sent for its request, of the frame that
\* carried a payload token
FrameIndex(v) == v % 10

Values(s) == [i \in 1..Len(s) |-> s[i].v]

IsPrefix(s, t) == Len(s) <= Len(t) /\ \A i \in 1..Len(s) : s[i] = t[i]

\* What the client of request r has been sent, by kind of SSE event
EventsOf(r, t) == SelectSeq(sse[r], LAMBDA e : e.t = t)

ClientDeltas(r) == Values(EventsOf(r, "delta"))

\* The relay of request r selects on the channels of its session for a
\* client that is connected
Selecting(r) == hpc[r] = "phase1" /\ rpc[r] \in {"loop", "got", "fwd"}

\* Requests r and q are relayed through the same bridge at the same time
\* under different requestIds
Concurrent(r, q) ==
    /\ r # q
    /\ requestID[r] # requestID[q]
    /\ rbridge[r] = rbridge[q]
    /\ Selecting(r) /\ Selecting(q)

\* C1: with two requests of different requestIds relayed through one bridge
\* at the same time, each client is sent only deltas whose frames carried
\* its own requestId, and the response a relay has taken out of the channel
\* it selects on is not a delta addressed to the other request.
C1_Isolation ==
    \A r \in Reqs : \A q \in Reqs :
        Concurrent(r, q) =>
            /\ \A i \in 1..Len(sse[r]) : sse[r][i].t = "delta" => Owner(sse[r][i].v) = r
            /\ rpc[r] = "got" => ~(rin[r].RequestID = requestID[q] /\ rin[r].Delta # 0)

\* The relay of request r returned because it read a done=true response
NormalEnd(r) ==
    rerr[r] = "" /\ rpc[r] \in {"exit", "closefile", "closeerror", "closeresponse", "returned"}

\* Position in hist[r] of the first done=true frame put into the request's
\* channel; past every frame if there is none
FirstDone(r) ==
    LET D == {i \in 1..Len(hist[r]) :
                 hist[r][i].type = "resp" /\ hist[r][i].done /\ hist[r][i].acc} IN
    IF D = {} THEN Len(hist[r]) + 1 ELSE CHOOSE i \in D : \A j \in D : i <= j

\* The deltas of the chat_response frames the bridge sent for request r up
\* to the done=true frame that ended its relay, whether they found room in
\* the request's channel or not; a frame with an empty delta carries none
SentDeltas(r) ==
    LET upto == SubSeq(hist[r], 1, IF FirstDone(r) <= Len(hist[r])
                                   THEN FirstDone(r) ELSE Len(hist[r])) IN
    Values(SelectSeq(upto, LAMBDA f : f.type = "resp" /\ f.v # 0))

\* The non-empty deltas put into the channel of request r, up to the first
\* done=true frame put there
Forwarded(r) ==
    Values(SelectSeq(hist[r], LAMBDA f : /\ f.type = "resp" /\ f.acc /\ f.v # 0
                                          /\ FrameIndex(f.v) <= FirstDone(r)))

\* C2 as stated: when the relay of a request has returned on done=true, the
\* delta events written to the client are the deltas of the request's
\* chat_response frames: same values, same order, none missing, none twice.
C2_SameSequence ==
    \A r \in Reqs : NormalEnd(r) => ClientDeltas(r) = SentDeltas(r)

\* C2, amended: the delta events written to the client are, in order and
\* without duplicates, the deltas of the chat_response frames that found
\* room in the request's channel, up to the first done=true frame put
\* there; the client has a prefix of them while the relay runs and all of
\* them when the relay returns on done=true.
C2_Order ==
    \A r \in Reqs :
        /\ IsPrefix(ClientDeltas(r), Forwarded(r))
        /\ NormalEnd(r) => ClientDeltas(r) = Forwarded(r)

\* Two deltas waited in the request's channel together, the next found it
\* full, and the relay returned on done=true: the client has the two, in
\* the order of their frames
C2_Witness ==
    /\ NormalEnd(1)
    /\ \E i \in 1..Len(hist[1]) :
          /\ hist[1][i].type = "resp" /\ hist[1][i].v # 0 /\ ~hist[1][i].acc
          /\ i < FirstDone(1)
          /\ \E j \in 1..(i - 1) : \E k \in (j + 1)..(i - 1) :
                /\ hist[1][j].acc /\ hist[1][j].v # 0
                /\ hist[1][k].acc /\ hist[1][k].v # 0
                /\ ClientDeltas(1) = <<hist[1][j].v, hist[1][k].v>>

\* The stream of request r has ended with [DONE] for a connected client
Ended(r) == hpc[r] = "done" /\ ~gone[r] /\ sse[r] # <<>> /\ sse[r][Len(sse[r])] = DoneEvent

\* C3: when the relay has returned on done=true and the stream has ended
\* with [DONE], every file_response frame sent for the request after its
\* done=true frame, to a client still connected and before any drain timer
\* fired, was written as a file event.
C3_DoneThenFile ==
    \A r \in Reqs :
        (NormalEnd(r) /\ Ended(r)) =>
            \A i \in 1..Len(hist[r]) :
                (hist[r][i].type = "file" /\ hist[r][i].late)
                    => Event("file", hist[r][i].v) \in Range(sse[r])

\* The read loop of session c has got its read error and returned
LoopExited(c) == conn[c].state = "closed" /\ conn[c].ID # NoId

\* The relay of request r waits in its select loop on the channels it
\* registered on session c
InFlight(r, c) == rbridge[r] = c /\ rpc[r] \in {"loop", "fwd"}

\* C4: once the read loop of a closed bridge socket has returned, the
\* session is out of the registry and the request channels of every relay
\* waiting on it are closed, so that the relay gets 'bridge disconnected'.
C4_DisconnectCleanup ==
    \A c \in Conns :
        LoopExited(c) =>
            /\ c \notin connections
            /\ \A r \in Reqs : InFlight(r, c) => reqCh[r].closed

\* C5: a session the heartbeat supervisor has expired is out of the
\* registry, and once its read loop has returned every relay selecting on
\* that session can fail with 'bridge disconnected'.
C5_ExpiryCleanup ==
    \A c \in Conns :
        conn[c].Status = "offline" =>
            /\ c \notin connections
            /\ \A r \in Reqs :
                   (conn[c].state = "closed" /\ rbridge[r] = c /\ rpc[r] = "loop")
                       => ENABLED RelayChannelClosed(r)

\* The timer of the relay of request r has fired
TimerFired(r) == rerr[r] \in {"timeout", "timeout waiting for response"}

\* C6: when the timer of a relay has fired, on either branch, and the error
\* was handed to handleChat, the client was sent the error event
\* "timeout waiting for response" followed by [DONE].
C6_TimeoutMessage ==
    \A r \in Reqs :
        (TimerFired(r) /\ rpc[r] # "errsend") =>
            /\ Len(sse[r]) >= 2
            /\ SubSeq(sse[r], Len(sse[r]) - 1, Len(sse[r]))
                   = ErrorEvents("timeout waiting for response")

\* C7: a client is sent at most one error event and at most one [DONE]; an
\* error event is followed by [DONE] and by nothing else; an error the
\* relay has handed over is the one error event of the stream, written
\* after the 200 status; an error not yet handed over to a connected
\* client can be received by handleChat.
C7_ErrorSurface ==
    \A r \in Reqs :
        /\ Len(EventsOf(r, "error")) <= 1
        /\ Len(EventsOf(r, "done")) <= 1
        /\ \A i \in 1..Len(sse[r]) :
               sse[r][i].t = "error" => i + 1 = Len(sse[r]) /\ sse[r][i + 1] = DoneEvent
        /\ (rerr[r] # "" /\ rpc[r] # "errsend")
               => EventsOf(r, "error") = <<Event("error", rerr[r])>> /\ http[r] = 200
        /\ (rpc[r] = "errsend" /\ ~gone[r] /\ ~crashed) => ENABLED HandlerRecvError(r)

\* A delta, then the bridge's disconnect surfaced as error event and [DONE]
C7_Witness ==
    sse[1] = <<Event("delta", Token(1, 1))>> \o ErrorEvents("bridge disconnected")

\* C8: a connection in the registry, or served by the read loop, sent as
\* its first frame a register frame with the configured, non-empty token;
\* a connection that has not done so is not left open past the handshake
\* deadline (waited is the time since accept as of the supervisor's last
\* tick, so the time since accept is at least waited - TickerPeriod).
C8_HandshakeBeforeService ==
    \A c \in Conns :
        /\ (c \in connections \/ conn[c].state = "registered")
               => /\ conn[c].first.kind = "frame"
                  /\ conn[c].first.type = "register"
                  /\ conn[c].first.token = BridgeToken
                  /\ conn[c].first.token # ""
        /\ conn[c].state = "handshake"
               => conn[c].waited - TickerPeriod < HandshakeDeadline

\* C9: every delta event written to the client of a request comes from a
\* frame no later than the first done=true frame put into the request's
\* channel, whatever chat_response frames follow it.
C9_NoDeltaAfterDone ==
    \A r \in Reqs :
        \A i \in 1..Len(sse[r]) :
            sse[r][i].t = "delta" => FrameIndex(sse[r][i].v) <= FirstDone(r)

\* A non-empty delta frame followed the done frame, the stream has ended
\* with [DONE], and that delta was not written
C9_Witness ==
    /\ Len(hist[1]) = 2
    /\ FirstDone(1) = 1
    /\ hist[1][2].type = "resp" /\ hist[1][2].v = Token(1, 2)
    /\ sse[1] # <<>> /\ sse[1][Len(sse[1])] = DoneEvent
    /\ Token(1, 2) \notin Range(ClientDeltas(1))

\* A step of the relay of request r, alone or in rendezvous with handleChat
RelayStep(r) == RelayChat(r) \/ HandlerRecvDelta(r) \/ HandlerRecvError(r)

\* C10: a relay that has returned has unregistered its requestId and closed
\* its output channels, and a started relay that has not returned can take
\* a step, also after the client has disconnected.
C10_RelayTerminates ==
    \A r \in Reqs :
        /\ rpc[r] = "returned"
               => /\ outClosed[r]
                  /\ \A c \in Conns : r \notin requests[c]
        /\ (rpc[r] \notin {"none", "returned"} /\ ~crashed) => ENABLED RelayStep(r)

\* The relay of request r holds channels registered on session c
Registered(r, c) == rbridge[r] = c /\ rpc[r] \in {"send", "body", "loop", "fwd"}

\* C11: two requests whose relays hold channels on the same bridge have
\* different requestIds, and the channel set of each is the one the
\* bridge's registry holds under its requestId: no register has replaced it.
C11_RequestIdUnique ==
    \A c \in Conns : \A r \in Reqs :
        Registered(r, c) =>
            /\ r \in requests[c]
            /\ \A q \in Reqs \ {r} : Registered(q, c) => requestID[q] # requestID[r]

\* The read loop of session c runs and the supervisor has not expired it
Online(c) == conn[c].state = "registered" /\ conn[c].Status = "online"

\* C12: two sessions online at the same time have different ids, and each
\* is the registry's entry under its id: no handshake has overwritten it.
C12_BridgeIdUnique ==
    \A c \in Conns :
        Online(c) =>
            /\ c \in connections
            /\ \A d \in Conns \ {c} : Online(d) => conn[d].ID # conn[c].ID


\* C13: the writes on a session's socket are whole frames one after the
\* other: every length is directly followed by the body of its own frame (or
\* is the last write so far), and every body directly follows its own length
C13_WholeFrames ==
    \A c \in Conns : \A i \in 1..Len(wire[c]) :
       IF wire[c][i].part = "len"
       THEN i < Len(wire[c]) => wire[c][i + 1] = Chunk(wire[c][i].req, "body")
       ELSE i > 1 /\ wire[c][i - 1] = Chunk(wire[c][i].req, "len")

\* Request r has a consumer that is stuck: its relay holds a delta that
\* handleChat does not take
Stuck(r) == rpc[r] = "fwd"

\* The relay of request r waits in its select for a client that is connected
Waiting(r) == hpc[r] = "phase1" /\ rpc[r] = "loop"

\* Every response buffered on session c is addressed to request r
OnlyOf(c, r) ==
    \A i \in 1..Len(conn[c].ResponseCh) : conn[c].ResponseCh[i].RequestID = requestID[r]

\* The read loop gets past whatever frame comes next
ReadLoopNeverWaits ==
    \A c \in Conns : Readable(c) =>
       /\ ENABLED HandleHeartbeat(c)
       /\ ENABLED ReadStrayResponse(c)
       /\ ENABLED ReadStrayError(c)
       /\ \A rid \in FrameRids(c) :
             /\ ENABLED ReadChatResponse(c, rid, FALSE, FALSE)
             /\ ENABLED ReadChatError(c, rid)

\* C14: the read loop of a session is never held up by a dispatch, and a
\* request whose consumer is stuck does not cost another request of the
\* session its frames: while the relay of one request is held up with a
\* delta and every buffered response is addressed to that request, a frame
\* read for another request, whose relay is waiting, finds room
C14_NeverBlocks ==
    /\ ReadLoopNeverWaits
    /\ \A c \in Conns : \A r \in Reqs : \A q \in Reqs :
          (/\ Readable(c)
           /\ r # q /\ requestID[r] # requestID[q]
           /\ rbridge[r] = c /\ rbridge[q] = c
           /\ Stuck(r) /\ Waiting(q)
           /\ OnlyOf(c, r))
              => Room(c, "ResponseCh")

\* Nothing was done for request r beyond the HTTP error response: no relay
\* started, no requestId, no request channels registered, no frame written
\* to a bridge, no SSE event written
Untouched(r) ==
    /\ rpc[r] = "none" /\ dpc[r] = "none" /\ requestID[r] = NoId
    /\ reqCh[r] = EmptyChannels /\ \A c \in Conns : r \notin requests[c]
    /\ ~sentReq[r] /\ \A c \in Conns : \A i \in 1..Len(wire[c]) : wire[c][i].req # r
    /\ sse[r] = <<>> /\ outFile[r] = <<>>

\* The request's body is no JSON or fails validation
BadBody(r) == ~chatReq[r].json \/ ValidateChatRequest(chatReq[r]) # ""

C15_Answered ==
    \A r \in Reqs : hpc[r] # "idle" =>
       /\ BadBody(r) => http[r] = 400
       /\ http[r] = 404 => ~BadBody(r) /\ body[r] = "Instance not found"
       /\ http[r] \in {400, 404} => Untouched(r)

C15_Absent ==
    \A r \in Reqs :
       (hpc[r] = "idle" /\ hpc'[r] # "idle" /\ ~BadBody(r)' /\ GetBridge(chatReq'[r].InstanceID) = NoConn)
          => http'[r] = 404

\* C15: a POST /api/chat whose body fails validation is answered with 400, a
\* valid one that names an instanceId absent from the registry with 404
\* "Instance not found", and in both cases nothing else is done for the
\* request: no relay, no registered channels, no frame, no SSE event
C15_RejectedEarly == [](C15_Answered) /\ [][C15_Absent]_vars

\* One request answered 400 and the other 404 while a bridge is registered
C15_Witness ==
    /\ connections # {}
    /\ \E r \in Reqs, q \in Reqs :
          /\ http[r] = 400 /\ chatReq[r].json /\ body[r] = ValidateChatRequest(chatReq[r])
          /\ http[q] = 404 /\ chatReq[q].InstanceID = UnknownInstance

AllowedRoles == {"user", "assistant", "system"}

\* Message i of the request has no content or a role that is not allowed
Offending(req, i) == req.Messages[i].Content = "" \/ req.Messages[i].Role \notin AllowedRoles

Offenders(req) == {i \in 1..Len(req.Messages) : Offending(req, i)}

\* Index, counted from 0, of the first offending message
FirstOffender(req) == (CHOOSE i \in Offenders(req) : \A j \in Offenders(req) : i <= j) - 1

\* The error texts that report message k
Reports(k) ==
    {"message[" \o ToString(k) \o "]: " \o what :
        what \in {"role is required", "content is required"} \cup
                 {"invalid role '" \o role \o "'" : role \in Roles}}

\* C16: ValidateChatRequest returns nil exactly for the requests with a
\* non-empty instanceId, at least one message, and content and an allowed
\* role in every message; given an instanceId and messages, it reports the
\* first offending message by its index, and for a first offender that has
\* content and the role 'tool' the text is "message[k]: invalid role 'tool'"
C16_Validation ==
    verr # NotRun =>
       /\ verr = "" <=> /\ vreq.InstanceID # NoId
                        /\ Len(vreq.Messages) > 0
                        /\ Offenders(vreq) = {}
       /\ (vreq.InstanceID # NoId /\ Offenders(vreq) # {}) =>
             LET k == FirstOffender(vreq) IN
             /\ verr \in Reports(k)
             /\ vreq.Messages[k + 1] = Message("tool", "hi")
                   => verr = "message[" \o ToString(k) \o "]: invalid role 'tool'"

\* The first message has the role 'tool' and the answer names message 0
C16_Witness ==
    /\ vreq.InstanceID # NoId
    /\ Len(vreq.Messages) = 2
    /\ vreq.Messages[1].Role = "tool"
    /\ verr = "message[0]: invalid role 'tool'"

\* Notifications in the send channel of client k or put into it by a call
\* that still holds the read lock
Enqueued(k) == Range(ncl[k].send) \cup {n \in Running : k \in notes[n].sent}

\* The clients call n has visited in its range over h.clients
Visited(n) == {k \in Clients : notes[n].found[k].id # NotConnected}

\* The clients call n found connected and identified as its target when it
\* came to them, every client it found connected for the empty target
Targets(n) ==
    {k \in Visited(n) : notes[n].target \in {"", notes[n].found[k].id}}

\* C17 as stated: a notification is enqueued for exactly the connected
\* clients that identified as its target, for every connected client when
\* the target is empty
C17_ExactlyMatching ==
    \A n \in Running : \A k \in Clients :
       n \in Enqueued(k) <=> k \in Targets(n)

\* C17: a notification is enqueued for exactly those connected clients that
\* identified as its target (every connected client when the target is
\* empty) and have room in their send buffer; a matching client whose buffer
\* is full does not get it, and no other client ever does; the call comes
\* to every client that is connected while it holds the read lock
C17_MatchingWithRoom ==
    \A n \in Running :
       /\ \A k \in Clients :
             n \in Enqueued(k) <=> (k \in Targets(n) /\ notes[n].found[k].room)
       /\ Visited(n) \cup notes[n].todo = hub

\* A notification for X was enqueued for the client identified as X and not
\* for a connected client that had identified as Y or not at all, although
\* that client had room in its send buffer
C17_Witness ==
    \E n \in Running : \E k \in Clients, j \in Clients :
       /\ notes[n].target = "X"
       /\ notes[n].todo = {}
       /\ notes[n].found[k].id = "X" /\ n \in Enqueued(k)
       /\ notes[n].found[j].id \in {"", "Y"} /\ n \notin Enqueued(j)
       /\ notes[n].found[j].room

\* The notify calls that have been answered
Answered == {n \in 1..Len(notes) : notes[n].call = "SendTo" /\ notes[n].pc = "done"}

\* The messages a notify call sent to the push service
PushesOf(n) == {i \in 1..Len(pushed) : pushed[i].by = n}

\* C18: a notify call that finds no connected client matching its target
\* sends exactly one message to the push service, and a notify call that
\* finds a matching client sends none
C18_PushFallback ==
    \A n \in Answered :
       IF ~notes[n].hit THEN Cardinality(PushesOf(n)) = 1 ELSE PushesOf(n) = {}

\* Positions of the {"eof":1} frames among the frames the recognizer received
Eofs == {i \in 1..Len(stt.up) : stt.up[i] = "eof"}

\* C19: once the client read has failed while the recognizer's end was
\* open, the recognizer has received exactly one {"eof":1} frame; in every
\* case it receives at most one, nothing after it, and the proxy closes the
\* upstream socket only after the pump has sent it
C19_EofOnce ==
    /\ Cardinality(Eofs) <= 1
    /\ \A i \in Eofs : i = Len(stt.up)
    /\ (stt.toVosk = "done" /\ stt.voskPeer) => Cardinality(Eofs) = 1
    /\ Eofs # {} => stt.toVosk = "done" /\ ~stt.clientPeer
    /\ stt.voskClosed => stt.toVosk = "done"

\* The client sent audio and went away, the recognizer got the audio and
\* then the sentinel, and the proxy has closed the upstream socket
C19_Witness ==
    /\ Len(stt.up) = MaxAudio + 1
    /\ stt.up[Len(stt.up)] = "eof"
    /\ stt.voskClosed

\* C20: the handler returns as soon as either pump has returned: while it
\* waits, a pump that has returned lets it return and close both sockets;
\* and once it has returned both sockets are closed
C20_ExitOnEitherPump ==
    /\ (stt.hpc = "wait" /\ (stt.toVosk = "done" \/ stt.toClient = "done"))
          => ENABLED STTReturn
    /\ (stt.hpc = "exit" /\ stt.toVosk # "none") => stt.voskClosed /\ stt.clientClosed

\* ------------------------------------------------------------- ReadMessage
\* io.ReadFull: the bytes it reads into a buffer of n bytes when the stream
\* ends after avail more bytes, and whether it fails
ReadFull(n, avail) == [read |-> Min(n, avail), err |-> avail < n]

\* ReadMessage on a stream that delivers hdr bytes of the header, which
\* declares length when it is whole, and then avail bytes before it ends.
\* data is the length of the slice returned (-1: nil)
ReadMessage(hdr, length, avail) ==
    IF ReadFull(HeaderLen, hdr).err
    THEN [err |-> TRUE, data |-> 0 - 1, allocated |-> 0, read |-> 0]
    ELSE [err |-> ReadFull(length, avail).err, data |-> length,
          allocated |-> length, read |-> ReadFull(length, avail).read]

\* The read loop calls ReadMessage and returns on its error
ReadLoop(hdr, length, avail) ==
    /\ ~frame.called
    /\ LET m == ReadMessage(hdr, length, avail)
       IN frame' = [called |-> TRUE, hdr |-> hdr, length |-> length, avail |-> avail,
                    err |-> m.err, data |-> m.data, allocated |-> m.allocated,
                    read |-> m.read,
                    loop |-> IF m.err THEN "returned" ELSE "dispatch"]
    /\ UNCHANGED <<coreVars, khub, dev, pipe, vosk, validateVars, hubVars, fcmVars, stt, timer>>

NextFrame ==
    \E hdr \in 0..HeaderLen, length \in 0..MaxLength, avail \in 0..MaxLength :
        ReadLoop(hdr, length, avail)

SpecFrame == Init /\ [][NextFrame]_vars

\* C21: ReadMessage fails, and the session ends, when the stream ends
\* inside the header or inside the declared body and when the declared
\* length is over the fixed bound; over the bound it allocates nothing and
\* reads none of the body
C21_FramingError ==
    frame.called =>
       /\ (frame.hdr < HeaderLen \/ frame.avail < frame.length \/ frame.length > FrameBound)
             => frame.err /\ frame.loop = "returned"
       /\ (frame.hdr = HeaderLen /\ frame.length > FrameBound)
             => frame.allocated = 0 /\ frame.read = 0

\* The client of request r has been sent the error event of a bridge
\* disconnect
Disconnected(r) ==
    \E i \in 1..Len(sse[r]) : sse[r][i].t = "error" /\ sse[r][i].v = "bridge disconnected"

\* C22: when the client is sent the 'bridge disconnected' error event, every
\* non-empty delta the session had put into the request's channel before it
\* went away has been written to the client
C22_DeltasBeforeDisconnect ==
    \A r \in Reqs :
        Disconnected(r) =>
            \A i \in 1..Len(hist[r]) :
                (hist[r][i].type = "resp" /\ hist[r][i].acc /\ hist[r][i].v # 0)
                    => hist[r][i].v \in Range(ClientDeltas(r))

\* ------------------------------------------------------- RelayChat's timer
\* chat_response frames RelayChat of request r has received from the
\* request's channel
Taken(r) ==
    Cardinality({i \in 1..Len(hist[r]) : hist[r][i].type = "resp" /\ hist[r][i].acc})
        - Len(RelayReqCh(r).ResponseCh)

\* timeout := time.NewTimer(2 * time.Minute) runs from before the loop until
\* RelayChat returns; nothing resets it
TimerRuns(r) == rpc[r] \in {"loop", "fwd"}

\* <-timeout.C is ready
TimerExpired(r) == timer[r].age >= RelayTimeoutPeriod

\* Minutes since RelayChat of request r last received a frame
Quiet(r) == IF Taken(r) > timer[r].seen THEN 0 ELSE timer[r].quiet

\* One minute passes
Minute ==
    /\ \E r \in Reqs : TimerRuns(r) /\ ~TimerExpired(r)
    /\ timer' = [r \in Reqs |->
                    IF TimerRuns(r)
                    THEN [age |-> Min(timer[r].age + 1, RelayTimeoutPeriod),
                          quiet |-> Min(Quiet(r) + 1, RelayTimeoutPeriod),
                          seen |-> Taken(r)]
                    ELSE timer[r]]
    /\ UNCHANGED <<coreVars, khub, dev, pipe, vosk, validateVars, hubVars, fcmVars, stt, frame>>

\* case <-timeout.C in the loop's select
RelayDeadline(r) == TimerExpired(r) /\ RelayTimeout(r)

\* case <-timeout.C while forwarding a delta
RelayForwardDeadline(r) == TimerExpired(r) /\ RelayForwardTimeout(r)

NextDeadline ==
    \/ Accept(1)
    \/ \E first \in FirstFrames : handleBridgeConnection(1, first)
    \/ \E rid \in FrameRids(1) : \E empty \in BOOLEAN, done \in BOOLEAN :
          MoreFrames /\ DispatchChatResponse(1, rid, empty, done)
    \/ Minute
    \/ \E r \in {1} :
          \/ \E id \in InstanceIds : handleChat(r, id)
          \/ RelayGetBridge(r)
          \/ RelayRegisterRequest(r)
          \/ RelaySendHeader(r)
          \/ RelaySendBody(r)
          \/ RelayRecvResponse(r)
          \/ RelayDeadline(r)
          \/ RelayForwardDeadline(r)
          \/ RelayReturn(r)
          \/ RelayCloseFile(r)
          \/ RelayCloseError(r)
          \/ RelayCloseResponse(r)
          \/ DrainReturn(r)
          \/ HandlerRecvDelta(r)
          \/ HandlerRecvError(r)
          \/ HandlerStreamClosed(r)

SpecDeadline == Init /\ [][NextDeadline]_vars

\* C23: RelayChat raises a timeout only when it has received no frame for
\* the request during the whole timeout period before
C23_TimeoutOnlyWhenQuiet ==
    \A r \in Reqs :
        TimerFired(r) => Quiet(r) >= RelayTimeoutPeriod

\* ------------------------------------------------------------ SSE liveness
\* The goroutines of a request run when they can: handleChat's select,
\* RelayChat and drainFileEvents
SpecLive ==
    /\ Init
    /\ [][Next]_vars
    /\ \A r \in {1} :
          /\ WF_vars(RelayChat(r))
          /\ WF_vars(drainFileEvents(r))
          /\ WF_vars(SSELoop(r))

\* The stream of request r has ended with [DONE], written once, as its
\* last event
EndedOnce(r) == Ended(r) /\ Len(EventsOf(r, "done")) = 1

\* C24: the SSE stream of a request that was accepted ends, unless the
\* client disconnects, with [DONE] written exactly once as its last event
C24_StreamEnds ==
    \A r \in {1} : (hpc[r] = "phase1") ~> (gone[r] \/ EndedOnce(r))

\* ------------------------------------------------- frames of the read loop
\* Session c has left the registry, its request channels are closed and its
\* read loop has left the loop, in the state a step leads to
SessionEnded(c) ==
    /\ conn'[c].state \in {"closing", "closed"}
    /\ c \notin connections'
    /\ \A r \in Reqs : r \in requests[c] => reqCh'[r].closed

\* C25: a frame whose body is not JSON ends the session like a read error:
\* no step of the read loop on such a frame leaves the session registered,
\* a request channel open or the loop reading
C25_BadJsonEndsSession ==
    \A c \in Conns : ~ENABLED (HandleBadJSON(c) /\ ~SessionEnded(c))

\* Session c is taken out of the registry, marked offline and has its
\* socket closed by a step
Evicted(c) ==
    c \notin connections' /\ conn'[c].Status = "offline" /\ conn'[c].sockClosed

\* C26: a tick of the supervisor evicts a session of the registry exactly
\* when more than 60 s have passed since its last heartbeat or, without
\* one, its registration; only a heartbeat frame moves that time forward;
\* so a session marked offline had been silent for more than 60 s
C26_EvictionRule ==
    /\ [](\A c \in Conns :
             conn[c].Status = "offline"
                 => conn[c].sincePing > HeartbeatTimeout /\ c \notin connections)
    /\ [][\A c \in Conns :
             /\ (heartbeatChecker /\ c \in connections)
                   => (Evicted(c) <=> Elapse(conn)[c].sincePing > HeartbeatTimeout)
             /\ (conn[c].state = "registered" /\ conn'[c].sincePing < conn[c].sincePing)
                   => HandleHeartbeat(c)]_vars

\* A session was evicted at the third tick after its last heartbeat
C26_Witness ==
    /\ conn[1].Status = "offline"
    /\ conn[1].sincePing = HeartbeatTimeout + TickerPeriod
    /\ 1 \notin connections

\* A step closes no channel of a session
ChannelsAsBefore == \A d \in Conns : conn'[d].chClosed = conn[d].chClosed

\* C27: the session's deletion is idempotent. The cleanup of a read loop
\* whose id is no longer in the registry changes neither the registry nor
\* a channel; when it does find the entry, the channels it closes were open;
\* the supervisor closes no channel; and a session taken out of the registry
\* never comes back, so that no channel is closed a second time
C27_IdempotentDelete ==
    [][\A c \in Conns :
          /\ bridgeReadError(c) =>
                IF GetBridge(conn[c].ID) = NoConn
                THEN connections' = connections /\ reqCh' = reqCh /\ ChannelsAsBefore
                ELSE /\ ~conn[GetBridge(conn[c].ID)].chClosed
                     /\ \A r \in requests[GetBridge(conn[c].ID)] : ~reqCh[r].closed
          /\ heartbeatChecker => reqCh' = reqCh /\ ChannelsAsBefore
          /\ (conn[c].state \in {"registered", "closing", "closed"} /\ c \notin connections)
                => c \notin connections']_vars

\* The supervisor evicted the session with a request in flight and the read
\* loop's cleanup ran afterwards
C27_Witness ==
    /\ conn[1].Status = "offline"
    /\ conn[1].state = "closed"
    /\ requests[1] # {}
    /\ 1 \notin connections

\* A step leaves the registry, session c and the request channels as they
\* are, the read loop of c still reading
SessionUntouched(c) ==
    /\ connections' = connections
    /\ conn'[c] = conn[c]
    /\ requests' = requests
    /\ reqCh' = reqCh

\* C28: the read loop of a registered session accepts a frame of a type it
\* does not know, and no step on such a frame changes the registry, the
\* session's status or last heartbeat time, or a request channel, or ends
\* the loop
C28_UnknownTypeIgnored ==
    \A c \in Conns :
        Readable(c) =>
            /\ ENABLED HandleUnknownType(c)
            /\ ~ENABLED (HandleUnknownType(c) /\ ~SessionUntouched(c))

\* A session that has been silent for two ticks, with a delta of a request
\* in flight buffered, can be sent a frame of an unknown type
C28_Witness ==
    /\ Readable(1)
    /\ 1 \in connections
    /\ conn[1].sincePing = HeartbeatTimeout
    /\ \E r \in requests[1] : reqCh[r].ResponseCh # <<>>

\* A step on a frame drops it: nothing enters a channel of a session or of
\* a request, no relay and no client gets anything, and the read loop goes on
Dropped ==
    /\ conn' = conn
    /\ connections' = connections
    /\ reqCh' = reqCh
    /\ rin' = rin
    /\ sse' = sse
    /\ ~crashed'

\* The relay of some request selects on the channels of session c
InUse(c) == \E q \in Reqs : rbridge[q] = c /\ rpc[q] \in {"loop", "got", "fwd"}

\* The relay of request r has returned and no request in flight has its id
Over(r) ==
    /\ rpc[r] = "returned"
    /\ sentReq[r]
    /\ \A q \in Reqs \ {r} : requestID[q] # requestID[r]

\* A chat_response frame with a delta for the id of request r on session c
LateResponse(c, r) ==
    /\ HandleChatResponse(c, ChatResponseMessage(requestID[r], TextFor(c, requestID[r]), FALSE))
    /\ UNCHANGED hist

\* C29: a frame that names a requestId no request of the session has, one
\* never issued or one of a request whose relay has returned, is accepted
\* by the read loop and dropped: while another request is relayed on the
\* session, no step on such a frame changes a channel, hands anything to a
\* relay or a client, or ends the read loop
C29_UnknownRequestDropped ==
    \A c \in Conns :
        (Readable(c) /\ InUse(c)) =>
            /\ ENABLED ReadStrayResponse(c)
            /\ ~ENABLED (ReadStrayResponse(c) /\ ~Dropped)
            /\ \A r \in Reqs :
                  (Over(r) /\ rbridge[r] = c) => ~ENABLED (LateResponse(c, r) /\ ~Dropped)

\* Client k has sent its identify message
Identified(k) == ncl[k].instanceID # ""

\* C30: a notification client is a recipient only between its identify
\* message and the end of its socket: the hub's set holds only clients that
\* have identified and whose reader still runs, and a client that has not
\* identified has had no notification enqueued
C30_RecipientWindow ==
    \A k \in Clients :
        /\ k \in hub => Identified(k) /\ ncl[k].state = "open"
        /\ ~Identified(k) => Enqueued(k) = {}

\* ------------------------------------------------- hub: full send buffers
\* Clients that connect, identify and leave, writers that take the
\* notifications from the send channels, and calls of SendTo
NextFanout ==
    \/ \E k \in Clients :
          \/ HandleWebSocket(k)
          \/ \E id \in HubIds : ncl[k].instanceID = "" /\ Identify(k, id)
          \/ ReaderFail(k)
          \/ WriterWrite(k)
    \/ \E id \in HubIds \cup {""} : HandleSendNotification(id)
    \/ SendToCalls

SpecFanout == Init /\ [][NextFanout]_vars

\* Clients that connect and leave without an identify message, writers that
\* take the notifications from the send channels, and calls of SendTo and
\* Broadcast
NextFull ==
    \/ \E k \in Clients :
          \/ HandleWebSocket(k)
          \/ ReaderFail(k)
          \/ WriterWrite(k)
    \/ \E id \in HubIds \cup {""} : HandleSendNotification(id)
    \/ SendToCalls
    \/ CallBroadcast
    \/ BroadcastCalls

SpecFull == Init /\ [][NextFull]_vars

\* C31: a notification is dropped for a matching client exactly when that
\* client's send buffer was full when the call came to it, whatever the
\* buffers of the other clients; neither SendTo nor Broadcast ever waits
\* for a full buffer, and a call that has ended its range has come to every
\* connected client
C31_DropForFullOnly ==
    /\ \A n \in Running :
          /\ \A k \in Targets(n) : n \notin Enqueued(k) <=> ~notes[n].found[k].room
          /\ \A k \in notes[n].todo : ENABLED (SendTo(n, k) \/ Broadcast(n, k))
          /\ notes[n].todo = {} => Visited(n) = hub
    /\ (Len(notes) < MaxNotes /\ ReaderFree) =>
          /\ ENABLED CallBroadcast
          /\ \A id \in HubIds \cup {""} : ENABLED HandleSendNotification(id)

\* A notification found one matching client with a full buffer and another
\* with room: the first did not get it, the second did
C31_Witness ==
    \E n \in Running : \E k \in Targets(n), j \in Targets(n) :
       /\ ~notes[n].found[k].room /\ n \notin Enqueued(k)
       /\ notes[n].found[j].room /\ n \in Enqueued(j)

\* ------------------------------------------- STT: recognizer results
\* A value under a key of the recognizer's JSON object: no such key, a
\* value that is not a string, or a string
NoKey == [string |-> FALSE, s |-> "(no key)"]
NotString == [string |-> FALSE, s |-> "(number)"]
Str(s) == [string |-> TRUE, s |-> s]

\* stt.go:97, the two placeholder texts of the recognizer ("recognizing",
\* with and without an ellipsis), romanized
FillerEllipsis == "insik jung..."
FillerPlain == "insik jung"

PartialValues == {NoKey, NotString, Str(""), Str("a")}
TextValues == {NoKey, NotString, Str(""), Str("b"), Str(FillerEllipsis), Str(FillerPlain)}

\* The messages the recognizer may send: one that is no JSON, or an object
VoskFrames ==
    {[json |-> FALSE, partial |-> NoKey, text |-> NoKey]}
        \cup {[json |-> TRUE, partial |-> p, text |-> t] : p \in PartialValues, t \in TextValues}

\* appResp == nil
Nil == [type |-> "nil", text |-> ""]

\* The translation without the test for the placeholder texts
appRespUnfiltered(voskResp) ==
    IF voskResp.partial.string /\ voskResp.partial.s # ""
    THEN [type |-> "partial", text |-> voskResp.partial.s]
    ELSE IF voskResp.text.string /\ voskResp.text.s # ""
    THEN [type |-> "final", text |-> voskResp.text.s]
    ELSE Nil

\* The app response built from a parsed recognizer message
appResp(voskResp) ==
    IF voskResp.partial.string /\ voskResp.partial.s # ""
    THEN [type |-> "partial", text |-> voskResp.partial.s]
    ELSE IF /\ voskResp.text.string /\ voskResp.text.s # ""
            /\ voskResp.text.s # FillerEllipsis /\ voskResp.text.s # FillerPlain
    THEN [type |-> "final", text |-> voskResp.text.s]
    ELSE Nil

\* Pump recognizer -> client, one iteration: a message read; skipped when it
\* is no JSON or gives no app response; else written to the client, and the
\* pump returns when the write fails
PumpTranslate(data, ok) ==
    /\ vosk.run
    /\ Len(vosk.sent) < MaxResults
    /\ IF ~data.json \/ appResp(data) = Nil
       THEN vosk' = [vosk EXCEPT !.sent = Append(@, data)]
       ELSE vosk' = [vosk EXCEPT !.sent = Append(@, data),
                                 !.out = IF ok THEN Append(@, appResp(data)) ELSE @,
                                 !.run = ok]
    /\ UNCHANGED <<coreVars, khub, dev, pipe, validateVars, hubVars, fcmVars, stt, frame, timer>>

NextVosk == \E data \in VoskFrames, ok \in BOOLEAN : PumpTranslate(data, ok)

SpecVosk == Init /\ [][NextVosk]_vars

\* What the claim has the proxy forward for a recognizer frame: a set with
\* at most one frame
Expected(f) ==
    IF ~f.json THEN {}
    ELSE IF f.partial.string /\ f.partial.s # ""
    THEN {[type |-> "partial", text |-> f.partial.s]}
    ELSE IF f.text.string /\ f.text.s \notin {"", FillerEllipsis, FillerPlain}
    THEN {[type |-> "final", text |-> f.text.s]}
    ELSE {}

\* The frames of the claim for a sequence of recognizer frames, in order
RECURSIVE ExpectedSeq(_)
ExpectedSeq(fs) ==
    IF fs = <<>> THEN <<>>
    ELSE LET rest == ExpectedSeq(Tail(fs)) IN
         IF Expected(Head(fs)) = {} THEN rest
         ELSE <<CHOOSE x \in Expected(Head(fs)) : TRUE>> \o rest

\* C32: the client is written, in the recognizer's order, one frame for each
\* recognizer frame with a non-empty partial (type partial) or else with a
\* non-empty text that is no placeholder (type final), and nothing for any
\* other frame; after a failed write nothing more is written
C32_Translation ==
    /\ IsPrefix(vosk.out, ExpectedSeq(vosk.sent))
    /\ vosk.run => vosk.out = ExpectedSeq(vosk.sent)

\* A partial and then a final result were forwarded in that order
C32_Witness ==
    /\ Len(vosk.sent) = 2
    /\ vosk.out = <<[type |-> "partial", text |-> "a"], [type |-> "final", text |-> "b"]>>

\* ------------------------------------------- SendMessage and ReadMessage
\* binary.Write(conn, binary.BigEndian, uint32(n)): four bytes, the most
\* significant first
BigEndian(n) ==
    <<(n \div (ByteRange * ByteRange * ByteRange)) % ByteRange,
      (n \div (ByteRange * ByteRange)) % ByteRange,
      (n \div ByteRange) % ByteRange,
      n % ByteRange>>

\* binary.Read of a uint32 from four bytes
Uint32(b) ==
    ((b[1] * ByteRange + b[2]) * ByteRange + b[3]) * ByteRange + b[4]

\* The JSON bodies json.Marshal may yield, as bytes
BodyBytes == {65, 66}
Bodies == UNION {[1..n -> BodyBytes] : n \in 1..MaxBody}

\* SendMessage, first write: the length of the body
SendHeader(w, data) ==
    /\ pipe.wpc[w] = "idle"
    /\ pipe' = [pipe EXCEPT !.wpc[w] = "body", !.data[w] = data,
                            !.bytes = @ \o BigEndian(Len(data)),
                            !.sent = Append(@, data)]
    /\ UNCHANGED <<coreVars, khub, dev, validateVars, hubVars, fcmVars, stt, frame, timer, vosk>>

\* SendMessage, second write: the body
SendBody(w) ==
    /\ pipe.wpc[w] = "body"
    /\ pipe' = [pipe EXCEPT !.wpc[w] = "done", !.bytes = @ \o pipe.data[w]]
    /\ UNCHANGED <<coreVars, khub, dev, validateVars, hubVars, fcmVars, stt, frame, timer, vosk>>

\* Every writer has returned from SendMessage: the stream ends after the
\* bytes it holds
StreamEnded == \A w \in Writers : pipe.wpc[w] = "done"

\* ReadMessage on the stream: the length, then that many bytes; it waits
\* for bytes that may still come and fails when the stream ends short
ReadStream ==
    LET b == pipe.bytes
        length == Uint32(SubSeq(b, 1, HeaderLen)) IN
    /\ ~pipe.err
    /\ b # <<>>
    /\ IF Len(b) >= HeaderLen /\ Len(b) >= HeaderLen + length
       THEN pipe' = [pipe EXCEPT !.bytes = SubSeq(b, HeaderLen + length + 1, Len(b)),
                                 !.got = Append(@, SubSeq(b, HeaderLen + 1, HeaderLen + length))]
       ELSE /\ StreamEnded
            /\ pipe' = [pipe EXCEPT !.bytes = <<>>, !.err = TRUE]
    /\ UNCHANGED <<coreVars, khub, dev, validateVars, hubVars, fcmVars, stt, frame, timer, vosk>>

NextPipe ==
    \/ \E w \in Writers : (\E data \in Bodies : SendHeader(w, data)) \/ SendBody(w)
    \/ ReadStream

SpecPipe == Init /\ [][NextPipe]_vars

\* C33: the bodies ReadMessage returns are the bodies given to SendMessage,
\* in the order of the calls, and ReadMessage never fails on a stream that
\* holds only frames written by SendMessage
C33_RoundTrip ==
    /\ ~pipe.err
    /\ IsPrefix(pipe.got, pipe.sent)
    /\ (StreamEnded /\ pipe.bytes = <<>>) => pipe.got = pipe.sent

\* ------------------------------------------------- device tokens
BearerPrefix == <<"B", "e", "a", "r", "e", "r", " ">>

\* strings.HasPrefix
HasPrefix(str, prefix) ==
    Len(str) >= Len(prefix) /\ SubSeq(str, 1, Len(prefix)) = prefix

\* strings.TrimPrefix
TrimPrefix(str, prefix) ==
    IF HasPrefix(str, prefix) THEN SubSeq(str, Len(prefix) + 1, Len(str)) ELSE str

\* ExtractBearerToken: ErrMissingToken without the header, ErrInvalidToken
\* without the prefix "Bearer "
ExtractBearerToken(auth) ==
    IF auth = <<>> THEN [token |-> <<>>, err |-> "missing token"]
    ELSE IF ~HasPrefix(auth, BearerPrefix) THEN [token |-> <<>>, err |-> "invalid token"]
    ELSE [token |-> TrimPrefix(auth, BearerPrefix), err |-> ""]

\* DeviceStore.Validate that finds a device for every token
DeviceValidateAny(token) == TRUE

\* DeviceStore.Validate: the token is a key of ds.devices
DeviceValidate(token) == \E d \in dev.devices : d.token = token

\* DeviceStore.Register: a new token and id, stored under the token
DeviceRegister ==
    LET k == Cardinality(dev.issued) + 1 IN
    /\ k <= MaxDevices
    /\ dev' = [dev EXCEPT !.devices = @ \cup {[token |-> TokenOf(k), id |-> DeviceIdOf(k)]},
                          !.issued = @ \cup {TokenOf(k)}]
    /\ UNCHANGED <<coreVars, khub, validateVars, hubVars, fcmVars, stt, frame, timer, vosk, pipe>>

\* DeviceStore.Remove: the device with the id is deleted, if there is one
DeviceRemove(deviceID) ==
    /\ dev' = [dev EXCEPT !.devices = {d \in @ : d.id # deviceID},
                          !.removed = @ \cup {d.token : d \in {e \in dev.devices : e.id = deviceID}}]
    /\ UNCHANGED <<coreVars, khub, validateVars, hubVars, fcmVars, stt, frame, timer, vosk, pipe>>

\* deviceAuthMiddleware on request q to a protected endpoint with the
\* Authorization header auth, up to the return of Validate: 401 without a
\* token or without a device for it. live: the tokens with a device when
\* Validate held the lock
deviceAuthMiddleware(q, auth) ==
    LET x == ExtractBearerToken(auth)
        ok == x.err = "" /\ DeviceValidate(x.token)
        call == [auth |-> auth, live |-> dev.issued \ dev.removed,
                 status |-> IF ok THEN 0 ELSE 401, invoked |-> FALSE] IN
    /\ dev.pending[q] = NoCall
    /\ dev' = [dev EXCEPT !.pending[q] = IF ok THEN call ELSE NoCall,
                          !.last = IF ok THEN @ ELSE call]
    /\ UNCHANGED <<coreVars, khub, validateVars, hubVars, fcmVars, stt, frame, timer, vosk, pipe>>

\* deviceAuthMiddleware after Validate has found the device: Touch, which
\* stamps the device if it is still there, and next.ServeHTTP
deviceTouchServe(q) ==
    LET call == dev.pending[q]
        token == ExtractBearerToken(call.auth).token IN
    /\ call # NoCall
    /\ dev' = [dev EXCEPT
                 !.touched = IF \E d \in dev.devices : d.token = token
                             THEN @ \cup {token} ELSE @,
                 !.pending[q] = NoCall,
                 !.last = [call EXCEPT !.status = 200, !.invoked = TRUE]]
    /\ UNCHANGED <<coreVars, khub, validateVars, hubVars, fcmVars, stt, frame, timer, vosk, pipe>>

\* Authorization headers: none, the bare prefix, a token that is, was or
\* never was issued with the prefix, with another scheme, with the prefix
\* in lower case, and alone
AuthHeaders ==
    {<<>>, BearerPrefix}
      \cup UNION {{BearerPrefix \o TokenOf(k),
                   <<"B", "a", "s", "i", "c", " ">> \o TokenOf(k),
                   <<"b", "e", "a", "r", "e", "r", " ">> \o TokenOf(k),
                   TokenOf(k)} : k \in 1..(MaxDevices + 1)}

NextDevice ==
    \/ DeviceRegister
    \/ \E k \in 1..MaxDevices : DeviceRemove(DeviceIdOf(k))
    \/ \E q \in DeviceRequests :
          \/ \E auth \in AuthHeaders : deviceAuthMiddleware(q, auth)
          \/ deviceTouchServe(q)

SpecDevice == InitDevices /\ [][NextDevice]_vars

\* C34: a request to a protected endpoint reaches the handler exactly when
\* its Authorization header is "Bearer " followed by a token that Register
\* issued and whose device had not been removed when the request was
\* validated; every other request is answered with 401
C34_TokenGate ==
    dev.last # NoCall =>
       /\ dev.last.invoked <=> \E t \in dev.last.live : dev.last.auth = BearerPrefix \o t
       /\ ~dev.last.invoked => dev.last.status = 401

\* The token of a removed device was refused after it had been accepted,
\* while the other device exists
C34_Witness ==
    /\ dev.last.auth = BearerPrefix \o TokenOf(1)
    /\ dev.last.status = 401
    /\ TokenOf(1) \in dev.touched
    /\ dev.last.live = {TokenOf(2)}

\* ------------------------------------------------ file events of a stream
\* The file frames the bridge sent for request r
FileFramesOf(r) ==
    {hist[r][j].v : j \in {k \in 1..Len(hist[r]) : hist[r][k].type = "file"}}

\* C35: every file event written to the client of a request carries a
\* file_response frame that the bridge sent for that request; no file event
\* is built from a receive that yielded no message
C35_FileEventsReal ==
    \A r \in Reqs : \A i \in 1..Len(sse[r]) :
        sse[r][i].t = "file" => sse[r][i].v \in FileFramesOf(r)

\* C36: after RelayChat has returned and closed the client-facing file
\* channel, no goroutine sends on it: drainFileEvents never performs a send
\* on a closed channel, which would panic
C36_NoSendOnClosed == ~crashed

\* --------------------------------------- bridge gone before the relay starts
\* RelayChat failed at its own lookup of the bridge or at the chat_request write
EarlyFailure(r) == rerr[r] \in {"bridge not found", "failed to send chat request"}

\* No session holds request channels for request r
Unregistered(r) == \A c \in Conns : r \notin requests[c]

\* The stream of request r ended as one error event and [DONE], its channels
\* are unregistered and RelayChat has returned
Terminated(r) ==
    /\ Ended(r)
    /\ sse[r] = ErrorEvents(rerr[r])
    /\ Unregistered(r)
    /\ rpc[r] = "returned"

\* C37: when the bridge has left the registry between handleChat's lookup
\* and the relay's own lookup or chat_request write, the stream of a
\* connected client is one error event ("bridge not found" or "failed to
\* send chat request") followed by [DONE] and nothing else, the relay
\* returns, and a relay that has returned leaves no request channels
\* registered
C37_BridgeGone ==
    /\ [](\A r \in Reqs : EarlyFailure(r) =>
             /\ sse[r] \in {<<>>, ErrorEvents(rerr[r])}
             /\ rpc[r] = "returned" => Unregistered(r))
    /\ \A r \in {1} : EarlyFailure(r) ~> (gone[r] \/ Terminated(r))

\* handleChat found the bridge, RelayChat did not, and the stream is terminated
C37_Witness ==
    /\ rerr[1] = "bridge not found"
    /\ http[1] = 200
    /\ GetBridge(inst[1]) = NoConn
    /\ Terminated(1)

\* ------------------------------------------------- status of the registry
\* GetInstances: id and status of every session in the registry
GetInstances == {[ID |-> conn[c].ID, Status |-> conn[c].Status] : c \in connections}

\* Two bridges that register, with ids from clock readings that may
\* coincide, send heartbeats, close, and are supervised
NextRegistry ==
    \/ \E c \in Conns :
          \/ Accept(c)
          \/ \E first \in FirstFrames, id \in ClockReadings :
                handleBridgeConnectionAt(c, first, id)
          \/ HandleHeartbeat(c)
          \/ BridgeClose(c)
          \/ bridgeSessionEnd(c)
          \/ bridgeConnClose(c)
    \/ heartbeatChecker

SpecRegistry == Init /\ [][NextRegistry]_vars

\* C38: every session in the bridge registry has status online, so that
\* neither the list of instances nor a lookup by id returns an offline
\* session
C38_RegistryOnline ==
    /\ \A c \in connections : conn[c].Status = "online"
    /\ \A i \in GetInstances : i.Status = "online"
    /\ \A c \in Conns :
          GetBridge(conn[c].ID) # NoConn => conn[GetBridge(conn[c].ID)].Status = "online"

\* One session was marked offline and is out of the registry while the
\* other is listed
C38_Witness ==
    /\ conn[1].Status = "offline"
    /\ GetInstances = {[ID |-> conn[2].ID, Status |-> "online"]}
    /\ conn[2].sincePing = HeartbeatTimeout

\* ------------------------------------------- closing a client of the hub
\* The hub with the reader's exit taken call by call, SendTo and Broadcast
\* client by client under the read lock
NextClose ==
    \/ \E k \in Clients :
          \/ HandleWebSocket(k)
          \/ ReaderFail(k)
          \/ ReaderFinish(k)
          \/ WriterWrite(k)
          \/ WriterReturn(k)
    \/ HandleSendNotification("")
    \/ SendToCalls
    \/ CallBroadcast
    \/ BroadcastCalls

SpecClose == Init /\ [][NextClose]_vars

\* C39: the notification hub never sends on a client's send channel after
\* the channel was closed: no call has panicked, and every client SendTo
\* and Broadcast have yet to visit while they hold the read lock is in the
\* set and has an open send channel
C39_NoSendAfterClose ==
    /\ HubRuns
    /\ \A k \in hub : ~ncl[k].sendClosed
    /\ \A n \in Running : notes[n].todo \subseteq hub

\* A notification was sent between the removal of client 1 and the close of
\* its channel: it went to client 2 and not to client 1
C39_Witness ==
    /\ ncl[1].state = "exiting" /\ 1 \notin hub /\ ~ncl[1].sendClosed
    /\ Len(notes) = 1
    /\ notes[1].todo = {}
    /\ Visited(1) = {2}
    /\ ncl[1].send = <<>>
    /\ ncl[2].send = <<1>>

\* ------------------------------------- instanceId-keyed notification hub
keyedRest == <<coreVars, validateVars, hubVars, fcmVars, stt, frame, timer, vosk, pipe, dev>>

\* NotificationHub.Register: close the connection stored under the
\* instanceId, if any, and store the new one
Register(instanceID, s) ==
    LET old == khub.clients[instanceID] IN
    [khub EXCEPT !.clients[instanceID] = s,
                 !.last[instanceID] = s,
                 !.ws = [t \in Sockets |->
                           IF t = s THEN [state |-> "registered", id |-> instanceID,
                                          closed |-> FALSE]
                           ELSE IF t = old THEN [@[t] EXCEPT !.closed = TRUE]
                           ELSE @[t]]]

\* Unregister that deletes the entry whatever connection it holds
UnregisterAny(instanceID, s) ==
    [khub EXCEPT !.clients[instanceID] = NoSock]

\* NotificationHub.Unregister: delete the entry only if it still holds the
\* connection of the caller
Unregister(instanceID, s) ==
    IF khub.clients[instanceID] # NoSock /\ khub.clients[instanceID] = s
    THEN [khub EXCEPT !.clients[instanceID] = NoSock]
    ELSE khub

\* The WebSocket endpoint accepts a connection and starts handleNotificationWS
KeyedConnect(s) ==
    /\ khub.ws[s].state = "none"
    /\ khub' = [khub EXCEPT !.ws[s].state = "pending"]
    /\ UNCHANGED keyedRest

\* handleNotificationWS: the first message fails to arrive within the
\* deadline, is no JSON or has no instanceId; conn.Close and return
KeyedReject(s) ==
    /\ khub.ws[s].state = "pending"
    /\ khub' = [khub EXCEPT !.ws[s] = [state |-> "done", id |-> "", closed |-> TRUE]]
    /\ UNCHANGED keyedRest

\* handleNotificationWS: the first message carries an instanceId; Register
KeyedRegister(s, instanceID) ==
    /\ khub.ws[s].state = "pending"
    /\ khub' = Register(instanceID, s)
    /\ UNCHANGED keyedRest

\* handleNotificationWS: conn.Read fails (the peer closed, the deadline
\* passed, or Register closed the connection for a newer one); return and
\* the deferred Unregister
KeyedReadError(s) ==
    /\ khub.ws[s].state = "registered"
    /\ khub' = [Unregister(khub.ws[s].id, s) EXCEPT !.ws[s].state = "done"]
    /\ UNCHANGED keyedRest

handleNotificationWS(s) ==
    \/ KeyedConnect(s)
    \/ KeyedReject(s)
    \/ \E id \in HubIds : KeyedRegister(s, id)
    \/ KeyedReadError(s)

NextKeyed == \E s \in Sockets : handleNotificationWS(s)

SpecKeyed == Init /\ [][NextKeyed]_vars

\* Handlers in their read loop for the instanceId whose connection the hub
\* has not closed
LiveFor(instanceID) ==
    {s \in Sockets : /\ khub.ws[s].state = "registered"
                     /\ khub.ws[s].id = instanceID
                     /\ ~khub.ws[s].closed}

\* C40: the keyed hub holds at most one connection per instanceId: a new
\* registration closes and replaces the previous one, the entry is the
\* connection that registered last, and it stays until the handler of that
\* very connection unregisters, whatever replaced connections do later
C40_OnePerInstance ==
    \A id \in HubIds :
        /\ Cardinality(LiveFor(id)) <= 1
        /\ khub.clients[id] # NoSock => LiveFor(id) = {khub.clients[id]}
        /\ khub.clients[id] \in {NoSock, khub.last[id]}
        /\ (khub.last[id] # NoSock /\ khub.ws[khub.last[id]].state = "registered")
               => khub.clients[id] = khub.last[id]

\* Connection 1 was replaced by connection 2 under "X" and closed, its
\* handler has returned through Unregister, and connection 2 is still stored
C40_Witness ==
    /\ khub.ws[1] = [state |-> "done", id |-> "X", closed |-> TRUE]
    /\ khub.ws[2] = [state |-> "registered", id |-> "X", closed |-> FALSE]
    /\ khub.clients["X"] = 2

====
